---- MODULE Spec2Model ----
(***************************************************************************)
(* Model of the deliberation pipeline of the LLM council backend:          *)
(* the complexity router (backend/routing), the semantic cache             *)
(* (backend/cache) and the staged pipeline (backend/council.py and the     *)
(* endpoints of backend/main.py).                                          *)
(*                                                                         *)
(* A query is a record [toks, pad]: a sequence of tokens followed by pad   *)
(* filler words (plain, pairwise distinct, non-technical, non-stop words   *)
(* of more than one letter).  Word tokens are separated by one space,      *)
(* "?" attaches to the token before it, "+" joins its neighbours without   *)
(* spaces and "_" is a run of extra whitespace.                            *)
(***************************************************************************)
EXTENDS Integers, Sequences, FiniteSets, TLC

VARIABLES
    rq,         \* router harness: the query handed to route_query_smart
    rforce,     \* router harness: force_tier (0 = None)
    rthr,       \* router harness: <<complexity_threshold_single, complexity_threshold_full>> in 1/100
    rdec,       \* router harness: the RoutingDecision returned (NoDecision before the call)
    sdAll,      \* select_diverse_models: all_models
    sdCount,    \* select_diverse_models: count
    sdProviders,\* select_diverse_models: providers dict, as a sequence of <<provider, remaining models>>
    sdSelected, \* select_diverse_models: selected
    sdIndex,    \* select_diverse_models: provider_index
    sdPc,       \* select_diverse_models: position ("start", "loop", "done")
    cache,      \* SemanticCache.cache: the entries in dict (insertion) order
    disk,       \* the cache file as last written by _save_to_disk
    now,        \* the clock, in hours
    seed,       \* the string-hash seed of the running process
    look,       \* cache harness: the last check_cache call and what it returned
    runs,       \* the pipeline runs started so far, each with its local state
    deleted,    \* the runs whose conversation was deleted while they ran
    pvText,     \* parse harness: the verdict text handed to parse_ranking_from_text
    pvParsed,   \* parse harness: the list returned (NotParsed before the call)
    rkStage2,   \* ranking harness: stage2_results, one record per evaluator
    rkModels,   \* ranking harness: the models of stage1_results, in label order
    rkThr,      \* ranking harness: DEBATE_CONFIG consensus_threshold, in hundredths
    rkAgg,      \* ranking harness: result of calculate_aggregate_rankings
    rkCons,     \* ranking harness: result of check_consensus
    rkPc,       \* ranking harness: "start", "aggregated" or "checked"
    smA,        \* similarity harness: the first query
    smB,        \* similarity harness: the second query
    smAB,       \* similarity harness: calculate_query_similarity(smA, smB)
    smBA,       \* similarity harness: calculate_query_similarity(smB, smA)
    smPc,       \* similarity harness: "start" or "done"
    mlQ,        \* routing-model harness: the query
    mlTier,     \* routing-model harness: tier of RoutingModel.predict (0 before)
    mlHeur,     \* routing-model harness: tier of the heuristic scorer (0 before)
    fan,        \* one Stage-1 fan-out: its calls, their completion order, its result
    deb,        \* one debate loop: its inputs, its position, its rounds so far
    syn         \* one stage3_synthesize_stream generator: tokens received, events yielded

routerVars == <<rq, rforce, rthr, rdec>>
selectVars == <<sdAll, sdCount, sdProviders, sdSelected, sdIndex, sdPc>>
cacheVars == <<cache, disk, now, seed>>
coreVars == <<routerVars, selectVars, cacheVars, look, runs>>
parseVars == <<pvText, pvParsed>>
rankVars == <<rkStage2, rkModels, rkThr, rkAgg, rkCons, rkPc>>
simVars == <<smA, smB, smAB, smBA, smPc>>
mlVars == <<mlQ, mlTier, mlHeur>>
extVars == <<deb, syn>>
harnessVars == <<parseVars, rankVars, simVars, mlVars, fan, extVars>>
pipeVars == <<coreVars, deleted>>
vars == <<pipeVars, harnessVars>>

----------------------------------------------------------------------------
(* Bounds of the model *)

MaxQueryLen == 4

(* the clock advances by ClockStep hours up to MaxTime *)
ClockStep == 24

MaxTime == 48

(* no lookup is made once an entry has been hit MaxHits times *)
MaxHits == 1

(* pipeline runs per behaviour *)
MaxRuns == 2

(* tokens of a verdict text *)
MaxVerdictLen == 4

(* words of a query of the similarity harness *)
MaxSimLen == 5

(* evaluators of a run, and labels in one evaluator's verdict *)
MaxEvaluators == 3
MaxRanked == 2

(* filler-word counts that put word_count on both sides of every length band *)
PadSet == {0, 5, 15, 30, 50}

----------------------------------------------------------------------------
(* Generic helpers *)

Min(a, b) == IF a < b THEN a ELSE b

Max(a, b) == IF a > b THEN a ELSE b

SeqsUpTo(S, n) == UNION {[1..k -> S] : k \in 0..n}

Range(s) == {s[i] : i \in 1..Len(s)}

----------------------------------------------------------------------------
(* Tokens and text *)

PunctTokens == {"?", "+", "_"}

IsWordTok(t) == t \notin PunctTokens

(* str.lower() on one token *)
LowerTok(t) ==
    CASE t = "What" -> "what"
      [] t = "Algorithm" -> "algorithm"
      [] OTHER -> t

LowerToks(toks) == [i \in 1..Len(toks) |-> LowerTok(toks[i])]

(* re.findall(r'\b\w+\b', text.lower()) on the token part of a query *)
WordsOf(toks) == SelectSeq(LowerToks(toks), IsWordTok)

----------------------------------------------------------------------------
(* The queries of the model *)

(* "What is 2+2?" *)
WhatIs2Plus2 == [toks |-> <<"What", "is", "2", "+", "2", "?">>, pad |-> 0]

(* queries of the cache harness: a text of seven significant words, the    *)
(* same text in another case after whitespace (the same key), the text with *)
(* one and with two words fewer, and a text without any significant word    *)
CacheQueries == {
    [toks |-> <<"algorithm", "database">>, pad |-> 5],
    [toks |-> <<"_", "Algorithm", "database">>, pad |-> 5],
    [toks |-> <<"algorithm", "database">>, pad |-> 4],
    [toks |-> <<"algorithm", "database">>, pad |-> 3],
    WhatIs2Plus2 }

(* queries of the pipeline: one for each tier, and the first in lower case *)
PipelineQueries == {
    WhatIs2Plus2,
    [toks |-> <<"what", "is", "2", "+", "2", "?">>, pad |-> 0],
    [toks |-> <<"algorithm", "?", "algorithm", "?", "algorithm">>, pad |-> 0],
    [toks |-> <<"algorithm", "?", "algorithm", "?", "algorithm">>, pad |-> 15] }

----------------------------------------------------------------------------
(* backend/routing/complexity.py *)

TECHNICAL_TERMS == {
    "algorithm", "architecture", "async", "asynchronous", "api", "backend",
    "cache", "class", "compiler", "complexity", "concurrent", "database",
    "debug", "deploy", "distributed", "docker", "encryption", "frontend",
    "function", "git", "hash", "implement", "inheritance", "interface",
    "kubernetes", "lambda", "latency", "microservice", "middleware",
    "multithread", "network", "optimization", "parallel", "pipeline",
    "polymorphism", "protocol", "queue", "recursion", "refactor", "regex",
    "rest", "scalability", "schema", "security", "server", "socket",
    "synchronous", "thread", "typescript", "virtualization", "webpack",
    "theorem", "proof", "equation", "integral", "derivative", "matrix",
    "vector", "statistical", "hypothesis", "correlation", "regression",
    "probability", "quantum", "relativity", "entropy", "thermodynamic",
    "epistemology", "ontology", "metaphysics", "utilitarian", "deontological",
    "consequentialism", "categorical", "existential", "phenomenology",
    "tradeoff", "trade-off", "compare", "contrast", "analyze", "evaluate",
    "implications", "consequences", "nuanced", "multifaceted", "comprehensive" }

(* The indicators that are made of whole words, each as its word sequence;  *)
(* "what's", "who's" and "where's" need an apostrophe, which no token has.  *)
SIMPLE_INDICATORS == {
    <<"what", "is">>, <<"who", "is">>, <<"when", "is">>, <<"when", "was">>,
    <<"where", "is">>, <<"how", "many">>, <<"how", "much">>, <<"how", "old">>,
    <<"define">>, <<"definition", "of">>, <<"meaning", "of">> }

AMBIGUITY_INDICATORS == {
    <<"best", "way">>, <<"should", "i">>, <<"which", "is", "better">>,
    <<"what", "do", "you", "think">>, <<"opinion", "on">>, <<"advice">>,
    <<"recommend">>, <<"suggestion">>, <<"depends", "on">>, <<"it", "varies">>,
    <<"context">>, <<"situation">>, <<"case", "by", "case">> }

(* the words of MULTI_PART_PATTERNS[0] *)
MULTI_PART_WORDS == {"first", "second", "third", "finally", "also",
                     "additionally", "moreover", "furthermore"}

(* `indicator in query_lower`: the indicator's words occur as consecutive   *)
(* tokens (consecutive word tokens are separated by exactly one space).     *)
ContainsPhrase(toks, phrase) ==
    LET low == LowerToks(toks) IN
    \E i \in 1..Len(low) :
        /\ i + Len(phrase) - 1 <= Len(low)
        /\ \A j \in 1..Len(phrase) : low[i + j - 1] = phrase[j]

(* the first non-whitespace token after position i, "" when there is none *)
RECURSIVE NextSolid(_, _)
NextSolid(toks, i) ==
    IF i >= Len(toks) THEN ""
    ELSE IF toks[i + 1] = "_" THEN NextSolid(toks, i + 1)
    ELSE toks[i + 1]

(* len(re.findall(r'\?\s+\w', query_lower)): a "?" followed by whitespace   *)
(* and a word, the word being a later token or the first filler word        *)
QuestionThenWord(q) ==
    Cardinality({i \in 1..Len(q.toks) :
        /\ q.toks[i] = "?"
        /\ LET n == NextSolid(q.toks, i) IN
           IF n = "" THEN q.pad > 0 ELSE IsWordTok(n)})

(* sum of len(re.findall(pattern, query_lower)) over MULTI_PART_PATTERNS;   *)
(* no token is "and"/"or", a digit run followed by ".", or a bullet, so     *)
(* patterns 1, 2 and 3 never match                                          *)
MultiPartMatches(q) ==
    LET low == LowerToks(q.toks) IN
    Cardinality({i \in 1..Len(low) : low[i] \in MULTI_PART_WORDS})
    + QuestionThenWord(q)

(* query.count('?') *)
QuestionMarks(q) == Cardinality({i \in 1..Len(q.toks) : q.toks[i] = "?"})

(* total_score = max(0.0, min(1.0, total_score)), on a score total/den *)
ClampScore(total, den) == Max(0, Min(den, total))

(* ComplexityAnalysis of analyze_query_complexity.  Scores are exact        *)
(* fractions num/den with den = 100 * max(word_count, 1): every factor but  *)
(* the technical one is a multiple of 1/100 and tech_ratio is               *)
(* tech_count / max(word_count, 1).                                         *)
analyze_query_complexity(q) ==
    LET words == WordsOf(q.toks)
        word_count == Len(words) + q.pad
        wc1 == Max(word_count, 1)
        length_score == IF word_count <= 5 THEN 0
                        ELSE IF word_count <= 15 THEN 10
                        ELSE IF word_count <= 30 THEN 15
                        ELSE IF word_count <= 50 THEN 20
                        ELSE 25
        simple_score == IF \E ind \in SIMPLE_INDICATORS : ContainsPhrase(q.toks, ind)
                        THEN 0 - 20 ELSE 0
        tech_count == Cardinality({i \in 1..Len(words) : words[i] \in TECHNICAL_TERMS})
        question_marks == QuestionMarks(q)
        multi_part_count == MultiPartMatches(q)
                            + (IF question_marks > 1 THEN question_marks - 1 ELSE 0)
        multi_score == Min(multi_part_count * 10, 25)
        ambiguity_count == Cardinality({ind \in AMBIGUITY_INDICATORS : ContainsPhrase(q.toks, ind)})
        ambiguity_score == Min(ambiguity_count * 10, 20)
        tech_num == Min(tech_count * 300, 30 * wc1)
        total == (length_score + simple_score + multi_score + ambiguity_score) * wc1 + tech_num
    IN  [ num |-> ClampScore(total, 100 * wc1),
          den |-> 100 * wc1,
          word_count |-> word_count,
          tech_count |-> tech_count,
          question_marks |-> question_marks,
          multi_part_count |-> multi_part_count,
          ambiguity_count |-> ambiguity_count,
          factors |-> [ length |-> length_score * wc1,
                        simplicity |-> simple_score * wc1,
                        technical |-> tech_num,
                        multi_part |-> multi_score * wc1,
                        ambiguity |-> ambiguity_score * wc1 ] ]

----------------------------------------------------------------------------
(* backend/config.py *)

COUNCIL_MODELS == << "openai/gpt-5.1", "google/gemini-3-pro-preview",
                     "anthropic/claude-sonnet-4.5", "x-ai/grok-4" >>

CHAIRMAN_MODEL == "google/gemini-3-pro-preview"

(* SMART_ROUTING_CONFIG; the thresholds in 1/100 *)
complexity_threshold_single == 30

complexity_threshold_full == 70

single_model == "anthropic/claude-sonnet-4.5"

mini_council_size == 3

(* model.split('/')[0] if '/' in model else 'unknown' *)
ProviderOf(model) ==
    CASE model = "openai/gpt-5.1" -> "openai"
      [] model = "openai/o1" -> "openai"
      [] model = "openai/gpt-4o" -> "openai"
      [] model = "google/gemini-3-pro-preview" -> "google"
      [] model = "google/gemini-2.5-flash" -> "google"
      [] model = "anthropic/claude-sonnet-4.5" -> "anthropic"
      [] model = "x-ai/grok-4" -> "x-ai"
      [] OTHER -> "unknown"

----------------------------------------------------------------------------
(* backend/routing/smart_router.py *)

(* providers: the dict of select_diverse_models in insertion order, each    *)
(* item a record [provider, models]                                         *)
RECURSIVE GroupByProvider(_, _)
GroupByProvider(all_models, providers) ==
    IF all_models = <<>> THEN providers
    ELSE LET model == Head(all_models)
             provider == ProviderOf(model)
             known == \E i \in 1..Len(providers) : providers[i].provider = provider
             added == IF known
                      THEN [i \in 1..Len(providers) |->
                              IF providers[i].provider = provider
                              THEN [providers[i] EXCEPT !.models = Append(@, model)]
                              ELSE providers[i]]
                      ELSE Append(providers, [provider |-> provider, models |-> <<model>>])
         IN  GroupByProvider(Tail(all_models), added)

(* the state of the round-robin loop when it is entered *)
SelectStart(all_models, count) ==
    [ providers |-> GroupByProvider(all_models, <<>>),
      selected |-> <<>>,
      index |-> 0,
      count |-> count,
      done |-> FALSE ]

(* which provider the loop visits at provider_index *)
ProviderSlotStuck(st) == 1

ProviderSlot(st) == (st.index % Len(st.providers)) + 1

(* one evaluation of the while condition and, when it holds, one pass       *)
(* through the loop body                                                    *)
SelectStep(st) ==
    IF ~(Len(st.selected) < st.count) THEN [st EXCEPT !.done = TRUE]
    ELSE LET n == Len(st.providers)
             k == ProviderSlot(st)
             has == st.providers[k].models # <<>>
             selected == IF has THEN Append(st.selected, Head(st.providers[k].models))
                         ELSE st.selected
             providers == IF has THEN [st.providers EXCEPT ![k].models = Tail(@)]
                          ELSE st.providers
             index == st.index + 1
         IN  [ providers |-> providers,
               selected |-> selected,
               index |-> index,
               count |-> st.count,
               done |-> index > st.count * n ]

RECURSIVE SelectLoop(_)
SelectLoop(st) == IF st.done THEN st.selected ELSE SelectLoop(SelectStep(st))

select_diverse_models(all_models, count) ==
    IF count >= Len(all_models) THEN all_models
    ELSE SelectLoop(SelectStart(all_models, count))

(* the tier of a score num/den under thresholds given in 1/100 *)
TierOfScoreInclusive(c, threshold_single, threshold_full) ==
    IF c.num * 100 <= threshold_single * c.den THEN 1
    ELSE IF c.num * 100 <= threshold_full * c.den THEN 2
    ELSE 3

TierOfScore(c, threshold_single, threshold_full) ==
    IF c.num * 100 < threshold_single * c.den THEN 1
    ELSE IF c.num * 100 < threshold_full * c.den THEN 2
    ELSE 3

(* the model list of a tier *)
ModelsOfTierMiniForFull(tier) ==
    IF tier = 1 THEN <<single_model>>
    ELSE select_diverse_models(COUNCIL_MODELS, mini_council_size)

ModelsOfTier(tier) ==
    IF tier = 1 THEN <<single_model>>
    ELSE IF tier = 2 THEN select_diverse_models(COUNCIL_MODELS, mini_council_size)
    ELSE COUNCIL_MODELS

(* route_query_smart with SMART_ROUTING_CONFIG["enabled"] = True;           *)
(* force_tier = 0 stands for None                                           *)
RouteWith(q, force_tier, threshold_single, threshold_full) ==
    LET complexity == analyze_query_complexity(q)
        tier == IF force_tier # 0 THEN force_tier
                ELSE TierOfScore(complexity, threshold_single, threshold_full)
    IN  [ tier |-> tier,
          models |-> ModelsOfTier(tier),
          complexity |-> complexity ]

route_query_smart(q, force_tier) ==
    RouteWith(q, force_tier, complexity_threshold_single, complexity_threshold_full)

----------------------------------------------------------------------------
(* backend/cache/similarity.py *)

STOP_WORDS == {
    "a", "an", "the", "is", "are", "was", "were", "be", "been", "being",
    "have", "has", "had", "do", "does", "did", "will", "would", "could",
    "should", "may", "might", "must", "can", "to", "of", "in", "for",
    "on", "with", "at", "by", "from", "as", "into", "through", "during",
    "before", "after", "above", "below", "between", "under", "again",
    "further", "then", "once", "here", "there", "when", "where", "why",
    "how", "all", "each", "few", "more", "most", "other", "some", "such",
    "no", "nor", "not", "only", "own", "same", "so", "than", "too", "very",
    "s", "t", "just", "don", "now", "i", "me", "my", "you", "your", "he",
    "she", "it", "we", "they", "what", "which", "who", "whom", "this",
    "that", "these", "those", "am", "but", "if", "or", "because", "until",
    "while", "about", "against", "and", "any", "both", "down", "up", "out",
    "off", "over", "its" }

(* the words of one letter (len(w) > 1 fails) among the tokens *)
ShortWords == {"2"}

(* tokenize(text), without the filler words: every filler is a token too *)
tokenize(q) == {w \in Range(WordsOf(q.toks)) : w \notin STOP_WORDS /\ w \notin ShortWords}

(* the token list of tokenize(text), fillers left out *)
TokenList(q) ==
    SelectSeq(WordsOf(q.toks), LAMBDA w : w \notin STOP_WORDS /\ w \notin ShortWords)

(* sum over the words w of count1[w] * count2[w]: the pairs of equal tokens *)
CountProduct(tokens1, tokens2) ==
    Cardinality({p \in (1..Len(tokens1)) \X (1..Len(tokens2)) : tokens1[p[1]] = tokens2[p[2]]})

(* Similarities are fixed-point numbers in units of 1/(10 * SimScale);      *)
(* SimScale is a multiple of every n <= 10, so a Jaccard ratio over at most *)
(* ten tokens is exact, and the cosine is rounded down to 1/SimScale.       *)
SimScale == 8 * 9 * 5 * 7

SimOne == 10 * SimScale

RECURSIVE ISqrtIn(_, _, _)
ISqrtIn(n, lo, hi) ==
    IF lo >= hi THEN lo
    ELSE LET mid == (lo + hi + 1) \div 2 IN
         IF mid * mid <= n THEN ISqrtIn(n, mid, hi) ELSE ISqrtIn(n, lo, mid - 1)

(* floor(sqrt(n)) for n <= SimScale^2 *)
ISqrt(n) == ISqrtIn(n, 0, SimScale)

(* the weights (Jaccard, cosine) in tenths, by avg_len *)
BlendWeights(len1, len2) == IF len1 + len2 <= 10 THEN <<7, 3>> ELSE <<5, 5>>

(* calculate_query_similarity(query1, query2).  The fillers of a query are  *)
(* the first pad words of one fixed list, so two queries share              *)
(* min(pad1, pad2) of them; the total word counts of the two TF vectors     *)
(* cancel in the cosine.                                                    *)
calculate_query_similarity(query1, query2) ==
    LET words1 == tokenize(query1)
        words2 == tokenize(query2)
        len1 == Cardinality(words1) + query1.pad
        len2 == Cardinality(words2) + query2.pad
        shared == Min(query1.pad, query2.pad)
        intersection == Cardinality(words1 \cap words2) + shared
        union == Cardinality(words1 \cup words2) + Max(query1.pad, query2.pad)
        tokens1 == TokenList(query1)
        tokens2 == TokenList(query2)
        Sq(x) == x * x
        dot_product == CountProduct(tokens1, tokens2) + shared
        norm1sq == CountProduct(tokens1, tokens1) + query1.pad
        norm2sq == CountProduct(tokens2, tokens2) + query2.pad
    IN  IF len1 = 0 \/ len2 = 0 THEN 0
        ELSE LET jaccard == (intersection * SimScale) \div union
                 cosine == ISqrt((Sq(dot_product) * Sq(SimScale)) \div (norm1sq * norm2sq))
                 w == BlendWeights(len1, len2)
             IN  w[1] * jaccard + w[2] * cosine

(* calculate_query_similarity tabulated over the queries of the model *)
SimilarityTable ==
    [ p \in (CacheQueries \cup PipelineQueries) \X (CacheQueries \cup PipelineQueries) |->
        calculate_query_similarity(p[1], p[2]) ]

Similarity(query1, query2) == SimilarityTable[<<query1, query2>>]

----------------------------------------------------------------------------
(* backend/cache/similarity.py with its float arithmetic: every operation   *)
(* rounds its exact result to MantissaBits significant bits (ties to even), *)
(* and a sum over the set all_words adds in the set's iteration order.  A   *)
(* float is an integer in units of 2^-FracBits.  The fixed-point form above *)
(* leaves the rounding out.                                                 *)

(* the fraction bits of the unit, and the significant bits an operation     *)
(* keeps (53 in a Python float)                                             *)
FracBits == 14

MantissaBits == 11

FloatOne == 2 ^ FracBits

RECURSIVE Log2(_)
Log2(x) == IF x < 2 THEN 0 ELSE 1 + Log2(x \div 2)

(* the float nearest to n / d *)
RoundRatio(n, d) ==
    LET k == Log2(n \div d)
        quantum == IF k >= MantissaBits THEN 2 ^ (k - MantissaBits + 1) ELSE 1
        u == d * quantum
        q == n \div u
        r == n % u
    IN  IF 2 * r > u THEN (q + 1) * quantum
        ELSE IF 2 * r < u THEN q * quantum
        ELSE IF q % 2 = 0 THEN q * quantum ELSE (q + 1) * quantum

FloatAdd(x, y) == RoundRatio(x + y, 1)

FloatMul(x, y) == RoundRatio(x * y, FloatOne)

FloatDiv(x, y) == RoundRatio(x * FloatOne, y)

(* math.sqrt(x) *)
FloatSqrt(x) ==
    LET n == x * FloatOne
        root == ISqrtIn(n, 0, 2 * FloatOne)
        k == Log2(root)
        quantum == IF k >= MantissaBits THEN 2 ^ (k - MantissaBits + 1) ELSE 1
        lower == (root \div quantum) * quantum
    IN  IF (2 * lower + quantum) * (2 * lower + quantum) < 4 * n
        THEN lower + quantum ELSE lower

(* the float of the ratio of two integers *)
FloatOf(n, d) == RoundRatio(n * FloatOne, d)

(* calculate_tf(words, text)[w] *)
calculate_tf(w, query) ==
    LET all_words == WordsOf(query.toks)
    IN  FloatOf(Cardinality({i \in 1..Len(all_words) : all_words[i] = w}),
                IF all_words = <<>> THEN 1 ELSE Len(all_words))

(* sum(term(w) for w in all_words), in iteration order *)
RECURSIVE FloatSum(_, _, _, _)
FloatSum(order, query1, query2, acc) ==
    IF order = <<>> THEN acc
    ELSE FloatSum(Tail(order), query1, query2,
                  FloatAdd(acc, FloatMul(calculate_tf(Head(order), query1),
                                         calculate_tf(Head(order), query2))))

(* the orders in which a set can be iterated *)
IterationOrders(S) ==
    {order \in [1..Cardinality(S) -> S] : \A i, j \in 1..Cardinality(S) : order[i] = order[j] => i = j}

(* calculate_query_similarity(query1, query2) when all_words iterates in    *)
(* the given order (queries without filler words)                           *)
calculate_query_similarity_float(query1, query2, order) ==
    LET words1 == tokenize(query1)
        words2 == tokenize(query2)
    IN  IF words1 = {} \/ words2 = {} THEN 0
        ELSE LET jaccard == FloatOf(Cardinality(words1 \cap words2), Cardinality(words1 \cup words2))
                 dot_product == FloatSum(order, query1, query2, 0)
                 norm1 == FloatSqrt(FloatSum(order, query1, query1, 0))
                 norm2 == FloatSqrt(FloatSum(order, query2, query2, 0))
                 cosine == IF norm1 > 0 /\ norm2 > 0
                           THEN FloatDiv(dot_product, FloatMul(norm1, norm2)) ELSE 0
                 w == BlendWeights(Cardinality(words1), Cardinality(words2))
             IN  FloatAdd(FloatMul(FloatOf(w[1], 10), jaccard),
                          FloatMul(FloatOf(w[2], 10), cosine))

----------------------------------------------------------------------------
(* backend/cache/storage.py *)

(* SEMANTIC_CACHE_CONFIG *)
similarity_threshold == 85

ttl_hours == 24

(* the configured capacity (1000 by default), scaled down *)
max_cache_size == 2

(* strip(): leading whitespace, and trailing whitespace when no filler      *)
(* word follows the tokens                                                  *)
RECURSIVE StripLeft(_)
StripLeft(toks) ==
    IF toks # <<>> /\ Head(toks) = "_" THEN StripLeft(Tail(toks)) ELSE toks

RECURSIVE StripRight(_)
StripRight(toks) ==
    IF toks # <<>> /\ toks[Len(toks)] = "_"
    THEN StripRight(SubSeq(toks, 1, Len(toks) - 1)) ELSE toks

(* query.lower().strip() *)
Normalize(q) ==
    [ toks |-> IF q.pad = 0 THEN StripRight(StripLeft(LowerToks(q.toks)))
               ELSE StripLeft(LowerToks(q.toks)),
      pad |-> q.pad ]

(* _generate_key: str(hash(normalized)) under the process's string-hash     *)
(* seed; two different normalized queries are taken to hash differently     *)
GenerateKey(hashSeed, q) == [seed |-> hashSeed, norm |-> Normalize(q)]

(* CachedResponse.is_expired at time t *)
IsExpiredNever(entry, t) == FALSE

IsExpiredAtTtl(entry, t) == t >= entry.created_at + ttl_hours

is_expired(entry, t) == t > entry.created_at + ttl_hours

NoEntry == [key |-> "none"]

RemoveAt(seq, i) == SubSeq(seq, 1, i - 1) \o SubSeq(seq, i + 1, Len(seq))

(* the position of key in the dict, 0 when it is absent *)
KeyIndex(c, key) ==
    IF \E i \in 1..Len(c) : c[i].key = key
    THEN CHOOSE i \in 1..Len(c) : c[i].key = key
    ELSE 0

(* _clean_expired *)
CleanExpired(c, t) == SelectSeq(c, LAMBDA e : ~is_expired(e, t))

(* an eviction by least use: the first position holding the least hit_count *)
LeastHitIndex(c) ==
    CHOOSE i \in 1..Len(c) :
        /\ \A j \in 1..Len(c) : c[i].hit_count <= c[j].hit_count
        /\ \A j \in 1..(i - 1) : c[j].hit_count > c[i].hit_count

(* the first position holding the least created_at: sorted() is stable *)
OldestIndex(c) ==
    CHOOSE i \in 1..Len(c) :
        /\ \A j \in 1..Len(c) : c[i].created_at <= c[j].created_at
        /\ \A j \in 1..(i - 1) : c[j].created_at > c[i].created_at

(* _enforce_size_limit: delete the excess oldest entries *)
RECURSIVE DropOldest(_, _)
DropOldest(c, excess) ==
    IF excess <= 0 THEN c ELSE DropOldest(RemoveAt(c, OldestIndex(c)), excess - 1)

EnforceSizeLimit(c) ==
    IF Len(c) > max_cache_size THEN DropOldest(c, Len(c) - max_cache_size) ELSE c

(* SemanticCache.get: [cache, entry] *)
CacheGet(c, key, t) ==
    LET i == KeyIndex(c, key) IN
    IF i = 0 THEN [cache |-> c, entry |-> NoEntry]
    ELSE IF ~is_expired(c[i], t)
         THEN LET hit == [c[i] EXCEPT !.hit_count = @ + 1] IN
              [cache |-> [c EXCEPT ![i] = hit], entry |-> hit]
         ELSE [cache |-> RemoveAt(c, i), entry |-> NoEntry]

(* the loop of find_similar over list(self.cache.items()) from position i:  *)
(* kept holds the entries that stay, best the position in kept of           *)
(* best_match (0 for None)                                                  *)
BetterMatchFirstAbove(similarity, best_score) ==
    similarity * 10 >= similarity_threshold * SimScale /\ best_score = 0

BetterMatch(similarity, best_score) ==
    similarity * 10 >= similarity_threshold * SimScale /\ similarity > best_score

RECURSIVE FindSimilarLoop(_, _, _, _, _, _, _)
FindSimilarLoop(c, i, kept, best, best_score, q, t) ==
    IF i > Len(c) THEN [kept |-> kept, best |-> best]
    ELSE IF is_expired(c[i], t)
         THEN FindSimilarLoop(c, i + 1, kept, best, best_score, q, t)
         ELSE LET similarity == Similarity(q, c[i].query) IN
              IF BetterMatch(similarity, best_score)
              THEN FindSimilarLoop(c, i + 1, Append(kept, c[i]), Len(kept) + 1, similarity, q, t)
              ELSE FindSimilarLoop(c, i + 1, Append(kept, c[i]), best, best_score, q, t)

(* a find_similar that counts the hit on the first entry it kept *)
FindSimilarStaleIndex(c, q, t) ==
    LET r == FindSimilarLoop(c, 1, <<>>, 0, 0, q, t) IN
    IF r.best = 0 THEN [cache |-> r.kept, entry |-> NoEntry]
    ELSE LET hit == [r.kept[r.best] EXCEPT !.hit_count = @ + 1] IN
         [cache |-> [r.kept EXCEPT ![1] = [r.kept[1] EXCEPT !.hit_count = @ + 1]],
          entry |-> hit]

(* SemanticCache.find_similar: [cache, entry] *)
FindSimilar(c, q, t) ==
    LET r == FindSimilarLoop(c, 1, <<>>, 0, 0, q, t) IN
    IF r.best = 0 THEN [cache |-> r.kept, entry |-> NoEntry]
    ELSE LET hit == [r.kept[r.best] EXCEPT !.hit_count = @ + 1] IN
         [cache |-> [r.kept EXCEPT ![r.best] = hit], entry |-> hit]

(* a set that always adds an entry *)
CacheSetAppends(c, hashSeed, q, art, tier, t) ==
    LET key == GenerateKey(hashSeed, q)
        entry == [ key |-> key, query |-> q, art |-> art, created_at |-> t,
                   hit_count |-> 0, routing_tier |-> tier ]
    IN  EnforceSizeLimit(Append(c, entry))

(* SemanticCache.set without the save: the new entry takes the place of an  *)
(* entry with the same key, or goes last                                    *)
CacheSet(c, hashSeed, q, art, tier, t) ==
    LET key == GenerateKey(hashSeed, q)
        entry == [ key |-> key, query |-> q, art |-> art, created_at |-> t,
                   hit_count |-> 0, routing_tier |-> tier ]
        i == KeyIndex(c, key)
    IN  EnforceSizeLimit(IF i = 0 THEN Append(c, entry) ELSE [c EXCEPT ![i] = entry])

----------------------------------------------------------------------------
(* backend/cache/middleware.py *)

(* SEMANTIC_CACHE_CONFIG["enabled"] *)
CacheEnabled == TRUE

Miss(c) == [cache |-> c, hit |-> FALSE, entry |-> NoEntry, similarity |-> 0, path |-> "miss"]

(* check_cache(query): the cache after the call and what is returned *)
check_cache(c, hashSeed, q, t) ==
    IF ~CacheEnabled THEN Miss(c)
    ELSE LET exact == CacheGet(c, GenerateKey(hashSeed, q), t) IN
         IF exact.entry # NoEntry
         THEN [ cache |-> exact.cache, hit |-> TRUE, entry |-> exact.entry,
                similarity |-> SimOne, path |-> "exact" ]
         ELSE LET similar == FindSimilar(exact.cache, q, t) IN
              IF similar.entry # NoEntry
              THEN [ cache |-> similar.cache, hit |-> TRUE, entry |-> similar.entry,
                     similarity |-> Similarity(q, similar.entry.query),
                     path |-> "similar" ]
              ELSE Miss(similar.cache)

----------------------------------------------------------------------------
(* backend/council.py: parse_ranking_from_text.  A verdict text is a        *)
(* sequence of tokens separated by whitespace: the header, a number with    *)
(* its period, a response label, or any other word.                         *)

HEADER == "FINAL RANKING:"

NUMBER == "1."

ResponseLabels == <<"Response A", "Response B", "Response C", "Response D">>

IsLabel(t) == t \in Range(ResponseLabels)

(* ranking_text.split("FINAL RANKING:") *)
RECURSIVE SplitOnHeader(_)
SplitOnHeader(text) ==
    IF \E i \in 1..Len(text) : text[i] = HEADER
    THEN LET i == CHOOSE k \in 1..Len(text) :
                      text[k] = HEADER /\ \A j \in 1..(k - 1) : text[j] # HEADER
         IN  <<SubSeq(text, 1, i - 1)>> \o SplitOnHeader(SubSeq(text, i + 1, Len(text)))
    ELSE <<text>>

(* re.findall(r'\d+\.\s*Response [A-Z]', section), each reduced to its label *)
NumberedMatches(section) ==
    LET at == SelectSeq([i \in 1..Len(section) |-> i],
                        LAMBDA i : i > 1 /\ IsLabel(section[i]) /\ section[i - 1] = NUMBER)
    IN  [k \in 1..Len(at) |-> section[at[k]]]

(* re.findall(r'Response [A-Z]', text) *)
LabelMatches(text) == SelectSeq(text, IsLabel)

(* ranking_section = parts[1] *)
RankingSection(parts) == parts[2]

parse_ranking_from_text(ranking_text) ==
    IF \E i \in 1..Len(ranking_text) : ranking_text[i] = HEADER
    THEN LET ranking_section == RankingSection(SplitOnHeader(ranking_text))
             numbered_matches == NumberedMatches(ranking_section)
         IN  IF numbered_matches # <<>> THEN numbered_matches
             ELSE LabelMatches(ranking_section)
    ELSE LabelMatches(ranking_text)

----------------------------------------------------------------------------
(* backend/council.py: the label map, calculate_aggregate_rankings and      *)
(* check_consensus.  average_rank and the threshold are in hundredths.      *)

RECURSIVE Flatten(_)
Flatten(seqs) ==
    IF seqs = <<>> THEN <<>> ELSE Head(seqs) \o Flatten(Tail(seqs))

RECURSIVE SumOf(_)
SumOf(s) == IF s = <<>> THEN 0 ELSE Head(s) + SumOf(Tail(s))

(* the keys of a dict in insertion order *)
RECURSIVE InsertionOrder(_)
InsertionOrder(s) ==
    IF s = <<>> THEN <<>>
    ELSE LET before == InsertionOrder(SubSeq(s, 1, Len(s) - 1))
         IN  IF s[Len(s)] \in Range(before) THEN before ELSE Append(before, s[Len(s)])

(* label_to_model of stage2_collect_rankings: chr(65 + i) for the i-th result *)
LabelToModel(models) ==
    [l \in {ResponseLabels[i] : i \in 1..Len(models)} |->
        models[CHOOSE i \in 1..Len(models) : ResponseLabels[i] = l]]

(* one Stage-2 record *)
Stage2Record(model, text) ==
    [model |-> model, ranking |-> text, parsed_ranking |-> parse_ranking_from_text(text)]

(* the positions appended to model_positions[model], evaluator by evaluator *)
ModelPositions(stage2_results, label_to_model, model) ==
    Flatten([e \in 1..Len(stage2_results) |->
        LET parsed_ranking == parse_ranking_from_text(stage2_results[e].ranking)
        IN  SelectSeq([i \in 1..Len(parsed_ranking) |-> i],
                      LAMBDA i : IF parsed_ranking[i] \in DOMAIN label_to_model
                                 THEN label_to_model[parsed_ranking[i]] = model
                                 ELSE FALSE)])

(* the keys of model_positions in insertion order *)
RankedModels(stage2_results, label_to_model) ==
    LET labels == Flatten([e \in 1..Len(stage2_results) |->
                      parse_ranking_from_text(stage2_results[e].ranking)])
        known == SelectSeq(labels, LAMBDA l : l \in DOMAIN label_to_model)
    IN  InsertionOrder([i \in 1..Len(known) |-> label_to_model[known[i]]])

(* round(total / count, 2) in hundredths, truncating instead of rounding *)
Round2Down(total, count) == (100 * total) \div count

(* round(total / count, 2) in hundredths.  The quotient is halfway between  *)
(* two hundredths only with eight positions or more; with eight it is an    *)
(* exact binary fraction and round() goes to the even hundredth.            *)
Round2(total, count) ==
    LET q == (100 * total) \div count
        r == (100 * total) % count
    IN  IF 2 * r > count THEN q + 1
        ELSE IF 2 * r < count THEN q
        ELSE IF q % 2 = 0 THEN q ELSE q + 1

(* list.sort(key = average_rank): stable *)
RECURSIVE InsertByAverage(_, _)
InsertByAverage(sorted, x) ==
    IF sorted = <<>> THEN <<x>>
    ELSE IF sorted[Len(sorted)].average_rank <= x.average_rank THEN Append(sorted, x)
    ELSE Append(InsertByAverage(SubSeq(sorted, 1, Len(sorted) - 1), x), sorted[Len(sorted)])

RECURSIVE SortByAverage(_)
SortByAverage(s) ==
    IF s = <<>> THEN <<>>
    ELSE InsertByAverage(SortByAverage(SubSeq(s, 1, Len(s) - 1)), s[Len(s)])

calculate_aggregate_rankings(stage2_results, label_to_model) ==
    LET models == RankedModels(stage2_results, label_to_model)
    IN  SortByAverage([k \in 1..Len(models) |->
            LET positions == ModelPositions(stage2_results, label_to_model, models[k])
            IN  [model |-> models[k],
                 average_rank |-> Round2(SumOf(positions), Len(positions)),
                 rankings_count |-> Len(positions)]])

(* count / total_rankings > threshold *)
MeetsThresholdStrict(count, total_rankings, threshold) ==
    count * 100 > threshold * total_rankings

(* count / total_rankings >= threshold *)
MeetsThreshold(count, total_rankings, threshold) ==
    count * 100 >= threshold * total_rankings

NoConsensus == [has_consensus |-> FALSE, model |-> "None"]

check_consensus(stage2_results, label_to_model, threshold) ==
    LET counted == SelectSeq(stage2_results,
                       LAMBDA r : IF r.parsed_ranking # <<>>
                                  THEN r.parsed_ranking[1] \in DOMAIN label_to_model
                                  ELSE FALSE)
        firsts == [i \in 1..Len(counted) |-> label_to_model[counted[i].parsed_ranking[1]]]
        total_rankings == Len(firsts)
        order == InsertionOrder(firsts)
        reached == {k \in 1..Len(order) :
                       MeetsThreshold(Cardinality({i \in 1..Len(firsts) : firsts[i] = order[k]}),
                                      total_rankings, threshold)}
    IN  IF total_rankings = 0 \/ reached = {} THEN NoConsensus
        ELSE [has_consensus |-> TRUE,
              model |-> order[CHOOSE k \in reached : \A j \in reached : k <= j]]

----------------------------------------------------------------------------
(* backend/routing/ml: features.py and model.py, on queries made of the     *)
(* tokens "what", "is", "algorithm", "database" and "?".  In the text a "?" *)
(* follows the token before it directly and every other token follows       *)
(* after one space.                                                         *)

(* len(token) *)
TokLen(t) ==
    CASE t = "what" -> 4
      [] t = "is" -> 2
      [] t = "algorithm" -> 9
      [] t = "database" -> 8
      [] OTHER -> 1

(* the spaces of the text *)
Spaces(toks) == Cardinality({i \in 2..Len(toks) : toks[i] # "?"})

(* sum(len(w) for w in query.split()) *)
SolidChars(toks) == SumOf([i \in 1..Len(toks) |-> TokLen(toks[i])])

(* the non-empty pieces of re.split(r'[.!?]+', query) *)
Sentences(toks) ==
    Cardinality({i \in 1..Len(toks) : toks[i] # "?" /\ (IF i = 1 THEN TRUE ELSE toks[i - 1] = "?")})

(* the keywords of TECHNICAL_KEYWORDS that occur in these texts; no         *)
(* keyword of REASONING_KEYWORDS or CREATIVE_KEYWORDS does                  *)
TECHNICAL_KEYWORDS == {"algorithm", "database"}

(* re.match(r'^what is\s', query_lower), the one SIMPLE_PATTERNS entry that *)
(* these texts can match                                                    *)
MatchesSimplePattern(toks) ==
    IF Len(toks) >= 3 THEN toks[1] = "what" /\ toks[2] = "is" /\ toks[3] # "?" ELSE FALSE

(* extract_features(query).to_vector(): each feature as num / den *)
FeatureVector(q) ==
    LET toks == q.toks
        word_count == IF toks = <<>> THEN 0 ELSE Spaces(toks) + 1
        question_count == QuestionMarks(q)
        Flag(b) == [num |-> IF b THEN 1 ELSE 0, den |-> 1]
    IN  << [num |-> SolidChars(toks) + Spaces(toks), den |-> 500],
           [num |-> word_count, den |-> 100],
           [num |-> Sentences(toks), den |-> 10],
           [num |-> SolidChars(toks), den |-> 10 * Max(word_count, 1)],
           [num |-> question_count, den |-> 1],
           Flag(question_count > 1),
           Flag(FALSE),
           Flag(FALSE),
           [num |-> Cardinality(TECHNICAL_KEYWORDS \cap Range(toks)), den |-> 5],
           [num |-> 0, den |-> 5],
           [num |-> 0, den |-> 5],
           Flag(MatchesSimplePattern(toks)),
           Flag(FALSE),
           Flag(FALSE),
           [num |-> 0, den |-> 5],
           [num |-> 0, den |-> 5] >>

(* _initialize_weights: the weights in tenths *)
InitialWeights == <<3, 4, 3, 1, 4, 5, 2, 3, 3, 4, 2, 0 - 5, 3, 4, 3, 2>>

(* the tier of RoutingModel.predict: complexity_score = sum(w * f) as the   *)
(* exact fraction num / den, den a multiple of every feature's denominator  *)
predict(weights, q) ==
    LET fv == FeatureVector(q)
        den == 5000 * fv[4].den
        num == SumOf([i \in 1..Len(weights) |-> weights[i] * fv[i].num * (den \div fv[i].den)])
    IN  IF num < 3 * den THEN 1
        ELSE IF num < 7 * den THEN 2
        ELSE 3

----------------------------------------------------------------------------
(* One Stage-1 fan-out, call by call: openrouter.query_models_parallel      *)
(* under stage1_collect_responses / stage1_mini_council, and the labels     *)
(* stage2_collect_rankings gives to its results.  A call ends with no       *)
(* response ("failed"), a response ("ok") or a response that carries a      *)
(* usage record ("ok_usage").                                               *)

FanIdle ==
    [ pc |-> "idle", models |-> <<>>, status |-> <<>>, issued |-> <<>>,
      order |-> <<>>, results |-> <<>>, usage |-> <<>>, labels |-> <<>> ]

CallOutcomes == {"failed", "ok", "ok_usage"}

Settled(status) == status \in CallOutcomes

(* a gather that returned with the first finished task *)
GatherReturnsOnFirst(f) == \E i \in 1..Len(f.models) : Settled(f.status[i])

(* asyncio.gather returns when every task has finished *)
GatherReturns(f) == \A i \in 1..Len(f.models) : Settled(f.status[i])

(* the models in the order their calls finished *)
ResponsesInCompletionOrder(f) == [k \in 1..Len(f.order) |-> f.order[k]]

(* {model: response for model, response in zip(models, responses)}: the    *)
(* indices of the models in request order                                   *)
ResponsesInRequestOrder(f) == [k \in 1..Len(f.models) |-> k]

(* the stage's request: tasks = [query_model(model, messages) for model in  *)
(* models], all started by gather before it waits                           *)
FanOutIssue ==
    /\ fan.pc = "start"
    /\ fan' = [fan EXCEPT !.pc = "waiting",
                          !.status = [i \in 1..Len(fan.models) |-> "pending"],
                          !.issued = [i \in 1..Len(fan.models) |-> fan.issued[i] + 1]]
    /\ UNCHANGED <<parseVars, rankVars, simVars, mlVars, extVars, pipeVars>>

(* query_model for the i-th model returns: a response, or None after any    *)
(* exception *)
CallSettle(i, outcome) ==
    /\ fan.pc = "waiting"
    /\ i \in 1..Len(fan.models)
    /\ fan.status[i] = "pending"
    /\ fan' = [fan EXCEPT !.status[i] = outcome, !.order = Append(@, i)]
    /\ UNCHANGED <<parseVars, rankVars, simVars, mlVars, extVars, pipeVars>>

(* gather returns; stage1_collect_responses builds stage1_results and       *)
(* usage_data, and stage2_collect_rankings the label map                    *)
FanOutJoin ==
    /\ fan.pc = "waiting"
    /\ GatherReturns(fan)
    /\ LET responses == ResponsesInRequestOrder(fan)
           succeeded == SelectSeq(responses, LAMBDA i : fan.status[i] \in {"ok", "ok_usage"})
           stage1_results == [k \in 1..Len(succeeded) |-> fan.models[succeeded[k]]]
           with_usage == SelectSeq(succeeded, LAMBDA i : fan.status[i] = "ok_usage")
       IN  fan' = [fan EXCEPT !.pc = "returned",
                              !.results = stage1_results,
                              !.usage = [k \in 1..Len(with_usage) |-> fan.models[with_usage[k]]],
                              !.labels = LabelToModel(stage1_results)]
    /\ UNCHANGED <<parseVars, rankVars, simVars, mlVars, extVars, pipeVars>>

----------------------------------------------------------------------------
(* Router harness: route_query_smart applied to one query *)

RouterVocab == {"what", "is", "algorithm", "also", "advice", "?"}

(* longer queries of interest: two "?" with three technical terms, and a    *)
(* query with every kind of indicator                                       *)
ExampleTokSeqs == {
    WhatIs2Plus2.toks,
    <<"algorithm", "?", "algorithm", "?", "algorithm">>,
    <<"Algorithm", "database", "cache", "?", "?">>,
    <<"what", "is", "algorithm", "database", "cache", "?", "?">>,
    <<"algorithm", "also", "?", "also", "?", "advice">> }

RouterQueries ==
    {[toks |-> t, pad |-> p] :
        t \in SeqsUpTo(RouterVocab, MaxQueryLen) \cup ExampleTokSeqs, p \in PadSet}

(* threshold pairs (single, full) in 1/100; the first is the default *)
ThresholdPairs == {<<complexity_threshold_single, complexity_threshold_full>>, <<20, 50>>}

NoDecision == [tier |-> 0]

NoQuery == [toks |-> <<>>, pad |-> 0]

RouterIdle ==
    /\ rq = NoQuery
    /\ rforce = 0
    /\ rthr = <<complexity_threshold_single, complexity_threshold_full>>
    /\ rdec = NoDecision

InitRouter ==
    /\ rq \in RouterQueries
    /\ rforce \in 0..3
    /\ rthr \in ThresholdPairs
    /\ rforce # 0 => rthr = <<complexity_threshold_single, complexity_threshold_full>>
    /\ rdec = NoDecision

RouterCall ==
    /\ rdec = NoDecision
    /\ rdec' = RouteWith(rq, rforce, rthr[1], rthr[2])
    /\ UNCHANGED <<rq, rforce, rthr, selectVars, cacheVars, look, runs, deleted, harnessVars>>

----------------------------------------------------------------------------
(* Selection harness: the loop of select_diverse_models, one pass per step *)

MaxModels == 4

ModelUniverse == {"openai/gpt-5.1", "openai/o1", "openai/gpt-4o",
                  "google/gemini-3-pro-preview", "anthropic/claude-sonnet-4.5",
                  "local-llama"}

(* duplicate-free model lists *)
ModelLists ==
    {l \in SeqsUpTo(ModelUniverse, MaxModels) :
        \A i, j \in 1..Len(l) : i # j => l[i] # l[j]}

SelectIdle ==
    /\ sdAll = <<>>
    /\ sdCount = 0
    /\ sdProviders = <<>>
    /\ sdSelected = <<>>
    /\ sdIndex = 0
    /\ sdPc = "start"

InitSelect ==
    /\ sdAll \in ModelLists
    /\ sdCount \in 0..(Len(sdAll) + 1)
    /\ sdProviders = <<>>
    /\ sdSelected = <<>>
    /\ sdIndex = 0
    /\ sdPc = "start"

(* lines 115-127: the early return, or the grouping by provider *)
SelectEnter ==
    /\ sdPc = "start"
    /\ IF sdCount >= Len(sdAll)
       THEN /\ sdSelected' = sdAll
            /\ sdPc' = "done"
            /\ UNCHANGED <<sdProviders, sdIndex>>
       ELSE LET st == SelectStart(sdAll, sdCount) IN
            /\ sdProviders' = st.providers
            /\ sdSelected' = st.selected
            /\ sdIndex' = st.index
            /\ sdPc' = "loop"
    /\ UNCHANGED <<sdAll, sdCount, routerVars, cacheVars, look, runs, deleted, harnessVars>>

(* lines 131-141: the while test and one pass through the body *)
SelectIterate ==
    /\ sdPc = "loop"
    /\ LET st == SelectStep([providers |-> sdProviders, selected |-> sdSelected,
                             index |-> sdIndex, count |-> sdCount, done |-> FALSE]) IN
       /\ sdProviders' = st.providers
       /\ sdSelected' = st.selected
       /\ sdIndex' = st.index
       /\ sdPc' = IF st.done THEN "done" ELSE "loop"
    /\ UNCHANGED <<sdAll, sdCount, routerVars, cacheVars, look, runs, deleted, harnessVars>>

----------------------------------------------------------------------------
(* Cache harness: the operations of the cache in any order *)

Seeds == {1, 2}

NoArt == [run |-> 0]

NoLook == [q |-> NoQuery]

(* a fresh process with no cache file *)
CacheIdle ==
    /\ cache = <<>>
    /\ disk = <<>>
    /\ now = 0
    /\ seed = 1
    /\ look = NoLook

(* time passes *)
Tick ==
    /\ now + ClockStep <= MaxTime
    /\ now' = now + ClockStep
    /\ look' = NoLook
    /\ UNCHANGED <<cache, disk, seed, runs, routerVars, selectVars, deleted, harnessVars>>

(* cache_response(query, ...): set, _enforce_size_limit, _save_to_disk *)
CacheStore(q) ==
    /\ CacheEnabled
    /\ cache' = CacheSet(cache, seed, q, NoArt, 0, now)
    /\ disk' = cache'
    /\ look' = NoLook
    /\ UNCHANGED <<now, seed, runs, routerVars, selectVars, deleted, harnessVars>>

(* check_cache(query) *)
CacheLookup(q) ==
    /\ \A i \in 1..Len(cache) : cache[i].hit_count < MaxHits
    /\ LET res == check_cache(cache, seed, q, now) IN
       /\ cache' = res.cache
       /\ look' = [ q |-> q, at |-> now, hit |-> res.hit, entry |-> res.entry,
                    similarity |-> res.similarity, path |-> res.path,
                    dropped |-> Len(cache) - Len(res.cache) ]
    /\ UNCHANGED <<disk, now, seed, runs, routerVars, selectVars, deleted, harnessVars>>

(* clear_cache(): POST /api/cache/clear *)
ClearCache ==
    /\ cache' = <<>>
    /\ disk' = <<>>
    /\ look' = NoLook
    /\ UNCHANGED <<now, seed, runs, routerVars, selectVars, deleted, harnessVars>>

(* get_cache_stats(): GET /api/cache/stats, which runs _clean_expired *)
GetCacheStats ==
    /\ CacheEnabled
    /\ cache' = CleanExpired(cache, now)
    /\ look' = NoLook
    /\ UNCHANGED <<disk, now, seed, runs, routerVars, selectVars, deleted, harnessVars>>

(* a new process: SemanticCache() loads the file under a fresh hash seed   *)
(* and drops the expired entries, without saving                            *)
Restart ==
    /\ \E s \in Seeds : seed' = s
    /\ cache' = CleanExpired(disk, now)
    /\ look' = NoLook
    /\ UNCHANGED <<disk, now, runs, routerVars, selectVars, deleted, harnessVars>>

(* SemanticCache.set(query, ...) with _enforce_size_limit and               *)
(* _save_to_disk; the harness keeps the call and the cache it met           *)
SetCall(q) ==
    /\ cache' = CacheSet(cache, seed, q, NoArt, 0, now)
    /\ disk' = cache'
    /\ look' = [q |-> q, at |-> now, before |-> cache]
    /\ UNCHANGED <<now, seed, runs, routerVars, selectVars, deleted, harnessVars>>

----------------------------------------------------------------------------
(* The pipeline: send_message_stream ("stream") and run_full_council        *)
(* ("full"), one action per stretch of code between two Gateway awaits.     *)
(* Stage 1.5 (verification) and the title request make Gateway calls of     *)
(* their own, outside Stages 1 to 3, and are left out.                      *)

IdleRun ==
    [ kind |-> "none", pc |-> "idle", q |-> NoQuery,
      hit |-> FALSE, similarity |-> 0, first |-> 0, held |-> NoArt,
      tier |-> 0, models |-> <<>>, score |-> [num |-> 0, den |-> 1],
      calls1 |-> <<>>, calls2 |-> <<>>, calls3 |-> <<>>,
      stage1 |-> <<>>, stage2 |-> <<>>, stage3 |-> "none",
      result |-> NoArt, outcome |-> "none", stored |-> FALSE, storedAt |-> 0 ]

PipelineIdle == runs = <<>> /\ deleted = {}

(* what a fan-out of query_model calls over models can return: the models   *)
(* that succeeded, in request order (all, none, or all but the first)       *)
query_models_parallel(models) ==
    {models, <<>>} \cup (IF Len(models) > 1 THEN {Tail(models)} ELSE {})

(* Stage 2 as a whole: every evaluator answers, or none *)
RankingResults(models) == {models, <<>>}

(* main.py 343-355: the Stage-1 variant and the models it queries *)
Stage1ModelsAlwaysCouncil(decision) == COUNCIL_MODELS

Stage1Models(decision) ==
    IF decision.tier = 1 THEN <<decision.models[1]>>
    ELSE IF decision.tier = 2 THEN decision.models
    ELSE COUNCIL_MODELS

(* stage2_collect_rankings: the models asked to rank *)
Stage2Models(stage1_results) == COUNCIL_MODELS

(* the run among the earlier ones that is the one earlier submission of q,  *)
(* was a miss and stored its result no more than ttl_hours ago; 0 if none   *)
FirstRunOf(q) ==
    LET earlier == {p \in DOMAIN runs : runs[p].kind = "stream" /\ runs[p].q = q} IN
    IF /\ Cardinality(earlier) = 1
       /\ \A p \in earlier : /\ runs[p].stored
                             /\ ~runs[p].hit
                             /\ now - runs[p].storedAt <= ttl_hours
    THEN CHOOSE p \in earlier : TRUE
    ELSE 0

(* the artifacts held under the key of q *)
HeldUnder(c, q) ==
    LET i == KeyIndex(c, GenerateKey(seed, q)) IN
    IF i = 0 THEN NoArt ELSE c[i].art

(* main.py 309-341 after check_cache returned res: the hit path to its      *)
(* return, or the routing decision and the Stage-1 requests                 *)
AfterLookupNoReturn(run, res) ==
    LET decision == route_query_smart(run.q, 0) IN
    [ run EXCEPT !.hit = res.hit, !.similarity = res.similarity,
                 !.result = IF res.hit THEN res.entry.art ELSE NoArt,
                 !.pc = "stage1", !.tier = decision.tier,
                 !.models = decision.models,
                 !.score = [num |-> decision.complexity.num, den |-> decision.complexity.den],
                 !.calls1 = Stage1Models(decision) ]

AfterLookup(run, res) ==
    IF res.hit
    THEN [ run EXCEPT !.hit = TRUE, !.similarity = res.similarity,
                      !.result = res.entry.art, !.pc = "done",
                      !.outcome = "complete" ]
    ELSE LET decision == route_query_smart(run.q, 0) IN
         [ run EXCEPT !.pc = "stage1", !.tier = decision.tier,
                      !.models = decision.models,
                      !.score = [num |-> decision.complexity.num, den |-> decision.complexity.den],
                      !.calls1 = Stage1Models(decision) ]

(* POST .../message/stream: event_generator up to its first Gateway await *)
StartStream(q) ==
    /\ Len(runs) < MaxRuns
    /\ \A i \in 1..Len(cache) : cache[i].hit_count < MaxHits
    /\ LET res == check_cache(cache, seed, q, now)
           run == [ IdleRun EXCEPT !.kind = "stream", !.q = q,
                                   !.first = FirstRunOf(q),
                                   !.held = HeldUnder(cache, q) ]
       IN  /\ cache' = res.cache
           /\ runs' = Append(runs, AfterLookup(run, res))
    /\ UNCHANGED <<disk, now, seed, look, routerVars, selectVars, deleted, harnessVars>>

(* POST .../message: run_full_council up to the Stage-1 fan-out *)
StartFull(q) ==
    /\ Len(runs) < MaxRuns
    /\ runs' = Append(runs, [ IdleRun EXCEPT !.kind = "full", !.q = q,
                                             !.pc = "stage1", !.calls1 = COUNCIL_MODELS ])
    /\ UNCHANGED <<cacheVars, look, routerVars, selectVars, deleted, harnessVars>>

(* run_full_council 818-822: the abort on an empty Stage 1 *)
AbortsOnEmpty(run) == run.kind = "full" /\ run.stage1 = <<>>

(* the Stage-1 calls have settled: on to the Stage-2 fan-out *)
Stage1Settle(r) ==
    /\ r \in DOMAIN runs
    /\ runs[r].pc = "stage1"
    /\ \E ok \in query_models_parallel(runs[r].calls1) :
          LET run == [runs[r] EXCEPT !.stage1 = ok] IN
          runs' = [runs EXCEPT ![r] =
              IF AbortsOnEmpty(run)
              THEN [ run EXCEPT !.pc = "done", !.stage3 = "all_failed",
                                !.outcome = "error" ]
              ELSE [ run EXCEPT !.pc = "stage2", !.calls2 = Stage2Models(ok) ]]
    /\ UNCHANGED <<cacheVars, look, routerVars, selectVars, deleted, harnessVars>>

(* the Stage-2 calls have settled: on to the chairman *)
Stage2Settle(r) ==
    /\ r \in DOMAIN runs
    /\ runs[r].pc = "stage2"
    /\ \E ok \in RankingResults(runs[r].calls2) :
          runs' = [runs EXCEPT ![r] =
              [ @ EXCEPT !.stage2 = ok, !.pc = "stage3", !.calls3 = <<CHAIRMAN_MODEL>> ]]
    /\ UNCHANGED <<cacheVars, look, routerVars, selectVars, deleted, harnessVars>>

(* stage3_synthesize_final: the answer or the sentinel; stage3_synthesize_stream: *)
(* the answer, the sentinel, or the text received before the stream broke  *)
Stage3Results(kind) ==
    IF kind = "full" THEN {"answer", "sentinel"} ELSE {"answer", "partial", "sentinel"}

(* main.py 435-444: the stream endpoint stores what the run produced *)
StoresResult(run) == run.kind = "stream" /\ CacheEnabled

(* storage.add_assistant_message raises when the conversation is gone *)
ConversationGone(r) == r \in deleted

(* the chairman's call has settled: the rest of the run.  The stream        *)
(* endpoint has sent stage3_complete before it saves the message, and the   *)
(* exception handler then sends the error event; send_message answers with  *)
(* the exception alone.                                                     *)
Stage3Settle(r) ==
    /\ r \in DOMAIN runs
    /\ runs[r].pc = "stage3"
    /\ \E s3 \in Stage3Results(runs[r].kind) :
          LET run == [runs[r] EXCEPT !.stage3 = s3, !.pc = "done", !.outcome = "complete"]
              art == [run |-> r, stage1 |-> run.stage1, stage2 |-> run.stage2, stage3 |-> s3]
          IN  IF ConversationGone(r)
              THEN /\ runs' = [runs EXCEPT ![r] =
                         [run EXCEPT !.outcome = "error",
                                     !.result = IF run.kind = "stream" THEN art ELSE NoArt]]
                   /\ UNCHANGED <<cache, disk>>
              ELSE IF StoresResult(run)
              THEN /\ cache' = CacheSet(cache, seed, run.q, art, run.tier, now)
                   /\ disk' = cache'
                   /\ runs' = [runs EXCEPT ![r] =
                         [run EXCEPT !.result = art, !.stored = TRUE, !.storedAt = now]]
              ELSE /\ runs' = [runs EXCEPT ![r] = [run EXCEPT !.result = art]]
                   /\ UNCHANGED <<cache, disk>>
    /\ UNCHANGED <<now, seed, look, routerVars, selectVars, deleted, harnessVars>>

(* DELETE /api/conversations/{id} while run r waits for its Gateway calls *)
DeleteConversation(r) ==
    /\ r \in DOMAIN runs
    /\ runs[r].pc \in {"stage1", "stage2", "stage3"}
    /\ r \notin deleted
    /\ deleted' = deleted \cup {r}
    /\ UNCHANGED <<coreVars, harnessVars>>

----------------------------------------------------------------------------
(* Parse harness: parse_ranking_from_text applied to one verdict text *)

VerdictTokens == {HEADER, NUMBER, "Response A", "Response B", "word"}

VerdictTexts == SeqsUpTo(VerdictTokens, MaxVerdictLen)

NotParsed == <<"not parsed">>

ParseIdle ==
    /\ pvText = <<>>
    /\ pvParsed = NotParsed

InitParse ==
    /\ pvText \in VerdictTexts
    /\ pvParsed = NotParsed

ParseCall ==
    /\ pvParsed = NotParsed
    /\ pvParsed' = parse_ranking_from_text(pvText)
    /\ UNCHANGED <<pvText, rankVars, simVars, mlVars, fan, extVars, pipeVars>>

----------------------------------------------------------------------------
(* Ranking harness: the aggregate and the consensus test of one run *)

(* what one evaluator wrote: the labels it listed, best first *)
RankVerdicts == SeqsUpTo({"Response A", "Response B"}, MaxRanked)

Thresholds == {50, 80, 100, 110}

Stage1ModelLists == {SubSeq(COUNCIL_MODELS, 1, n) : n \in 1..2}

RankIdle ==
    /\ rkStage2 = <<>>
    /\ rkModels = <<>>
    /\ rkThr = 0
    /\ rkAgg = <<>>
    /\ rkCons = NoConsensus
    /\ rkPc = "start"

InitRank ==
    /\ \E n \in 0..MaxEvaluators : \E texts \in [1..n -> RankVerdicts] :
          rkStage2 = [e \in 1..n |-> Stage2Record(COUNCIL_MODELS[e], texts[e])]
    /\ rkModels \in Stage1ModelLists
    /\ rkThr = 0
    /\ rkAgg = <<>>
    /\ rkCons = NoConsensus
    /\ rkPc = "start"

AggregateCall ==
    /\ rkPc = "start"
    /\ rkAgg' = calculate_aggregate_rankings(rkStage2, LabelToModel(rkModels))
    /\ rkPc' = "aggregated"
    /\ UNCHANGED <<rkStage2, rkModels, rkThr, rkCons, parseVars, simVars, mlVars, fan, extVars, pipeVars>>

ConsensusCall(threshold) ==
    /\ rkPc = "aggregated"
    /\ rkPc' = "checked"
    /\ rkThr' = threshold
    /\ rkCons' = check_consensus(rkStage2, LabelToModel(rkModels), threshold)
    /\ UNCHANGED <<rkStage2, rkModels, rkAgg, parseVars, simVars, mlVars, fan, extVars, pipeVars>>

----------------------------------------------------------------------------
(* Similarity harness: calculate_query_similarity called both ways round *)

SimVocab == {"algorithm", "database", "python"}

SimQueries == {[toks |-> t, pad |-> 0] : t \in SeqsUpTo(SimVocab, MaxSimLen) \ {<<>>}}

(* the queries that repeat no word *)
PlainSimQueries ==
    {q \in SimQueries : Cardinality(Range(q.toks)) = Len(q.toks)}

SimIdle ==
    /\ smA = NoQuery
    /\ smB = NoQuery
    /\ smAB = 0
    /\ smBA = 0
    /\ smPc = "start"

InitSim ==
    /\ smA \in PlainSimQueries
    /\ smB \in SimQueries
    /\ smAB = 0
    /\ smBA = 0
    /\ smPc = "start"

(* calculate_query_similarity(smA, smB); the call builds its own all_words *)
SimCallAB ==
    /\ smPc = "start"
    /\ \E order \in IterationOrders(tokenize(smA) \cup tokenize(smB)) :
          smAB' = calculate_query_similarity_float(smA, smB, order)
    /\ smPc' = "half"
    /\ UNCHANGED <<smA, smB, smBA, parseVars, rankVars, mlVars, fan, extVars, pipeVars>>

(* calculate_query_similarity(smB, smA) *)
SimCallBA ==
    /\ smPc = "half"
    /\ \E order \in IterationOrders(tokenize(smB) \cup tokenize(smA)) :
          smBA' = calculate_query_similarity_float(smB, smA, order)
    /\ smPc' = "done"
    /\ UNCHANGED <<smA, smB, smAB, parseVars, rankVars, mlVars, fan, extVars, pipeVars>>

----------------------------------------------------------------------------
(* Routing-model harness: an untrained RoutingModel (no model file,         *)
(* training_samples = 0) and the heuristic scorer on one query              *)

MLVocab == {"what", "is", "algorithm", "database", "?"}

MLQueries == {[toks |-> t, pad |-> 0] : t \in SeqsUpTo(MLVocab, MaxQueryLen)}

MLIdle ==
    /\ mlQ = NoQuery
    /\ mlTier = 0
    /\ mlHeur = 0

InitML ==
    /\ mlQ \in MLQueries
    /\ mlTier = 0
    /\ mlHeur = 0

(* get_routing_model().predict(query) *)
PredictCall ==
    /\ mlTier = 0
    /\ mlTier' = predict(InitialWeights, mlQ)
    /\ UNCHANGED <<mlQ, mlHeur, parseVars, rankVars, simVars, fan, extVars, pipeVars>>

(* analyze_query_complexity(query).tier *)
HeuristicCall ==
    /\ mlHeur = 0
    /\ mlHeur' = TierOfScore(analyze_query_complexity(mlQ),
                             complexity_threshold_single, complexity_threshold_full)
    /\ UNCHANGED <<mlQ, mlTier, parseVars, rankVars, simVars, fan, extVars, pipeVars>>

----------------------------------------------------------------------------
(* backend/council.py: the debate loop of run_full_council_tier2 (the same  *)
(* loop runs in send_message_stream_v2), with extract_critiques_for_model   *)
(* and stage2b_collect_rebuttals.  A verdict is a sequence of tokens; PROSE *)
(* stands for a passage of at least min_critique_length characters.         *)

PROSE == "a passage of fifty characters or more"

min_critique_length == 50

DEBATE_CONFIG_max_rounds == 3

DEBATE_CONFIG_consensus_threshold == 80

(* the characters of one token that can stand between two labels *)
TokenChars(t) ==
    IF t = PROSE THEN min_critique_length
    ELSE IF t = NUMBER THEN 2
    ELSE 4

(* len(match.strip()): the tokens joined by single separators *)
CritiqueLength(tokens) ==
    IF tokens = <<>> THEN 0
    ELSE SumOf([k \in 1..Len(tokens) |-> TokenChars(tokens[k])]) + Len(tokens) - 1

(* the group captured after the label at position i: everything up to the   *)
(* next "Response [A-Z]", the next "FINAL RANKING:" or the end of the text   *)
CapturedAfter(text, i) ==
    LET stops == {j \in (i + 1)..Len(text) : IsLabel(text[j]) \/ text[j] = HEADER}
        stop == IF stops = {} THEN Len(text) + 1
                ELSE CHOOSE j \in stops : \A k \in stops : j <= k
    IN  SubSeq(text, i + 1, stop - 1)

(* the model's label: the first key of label_to_model that maps to it *)
LabelOfModel(model, stage1_models) ==
    LET at == {i \in 1..Len(stage1_models) : stage1_models[i] = model}
    IN  IF at = {} THEN "None"
        ELSE ResponseLabels[CHOOSE i \in at : \A j \in at : i <= j]

(* the critiques one evaluator's text holds for a label *)
CritiquesIn(ranking, model_label) ==
    LET at == SelectSeq([i \in 1..Len(ranking.ranking) |-> i],
                        LAMBDA i : ranking.ranking[i] = model_label)
        long == SelectSeq(at, LAMBDA i :
                    CritiqueLength(CapturedAfter(ranking.ranking, i)) >= min_critique_length)
    IN  [k \in 1..Len(long) |->
            [from_model |-> ranking.model,
             critique |-> CapturedAfter(ranking.ranking, long[k])]]

extract_critiques_for_model(model, stage2_results, stage1_models) ==
    LET model_label == LabelOfModel(model, stage1_models)
    IN  IF model_label = "None" THEN <<>>
        ELSE Flatten([e \in 1..Len(stage2_results) |->
                 IF stage2_results[e].model = model THEN <<>>
                 ELSE CritiquesIn(stage2_results[e], model_label)])

(* a loop that asked the evaluators again after a round of rebuttals *)
Stage2Resolicited(d) ==
    IF d.all_rebuttals = <<>> THEN d.stage2
    ELSE [e \in 1..Len(d.stage2) |-> Stage2Record(d.stage2[e].model, d.stage2[1].ranking)]

(* stage2_results as every round reads it: the loop never assigns it *)
Stage2AtRound(d) == d.stage2

(* max_rounds = max_debate_rounds or DEBATE_CONFIG.get("max_rounds", 3) *)
MaxRounds(max_debate_rounds) ==
    IF max_debate_rounds = <<>> THEN DEBATE_CONFIG_max_rounds
    ELSE IF max_debate_rounds[1] = 0 THEN DEBATE_CONFIG_max_rounds
    ELSE max_debate_rounds[1]

DebIdle ==
    [ pc |-> "idle", enable_debate |-> FALSE, max_debate_rounds |-> <<>>,
      stage1 |-> <<>>, stage2 |-> <<>>, max_rounds |-> 0, round_num |-> 0,
      index |-> 0, issued |-> {}, rebuttals |-> <<>>, all_rebuttals |-> <<>>,
      debate_rounds |-> <<>>, requested |-> <<>> ]

(* stage2b_collect_rebuttals: the next result at or after position from     *)
(* that has critiques, 0 when the for loop is exhausted                     *)
NextCriticized(d, from) ==
    LET at == {i \in from..Len(d.stage1) :
                  extract_critiques_for_model(d.stage1[i], Stage2AtRound(d), d.stage1) # <<>>}
    IN  IF at = {} THEN 0 ELSE CHOOSE i \in at : \A j \in at : i <= j

RECURSIVE StartRound(_)

(* stage2b_collect_rebuttals has returned: the rest of the loop body *)
EndRound(d) ==
    IF d.rebuttals = <<>>
    THEN [d EXCEPT !.pc = "done",
                   !.debate_rounds = Append(@, [round |-> d.round_num + 1,
                                                status |-> "no_rebuttals", count |-> 0]),
                   !.requested = Append(@, d.issued)]
    ELSE StartRound([d EXCEPT
                   !.all_rebuttals = @ \o d.rebuttals,
                   !.debate_rounds = Append(@, [round |-> d.round_num + 1,
                                                status |-> "rebuttals_collected",
                                                count |-> Len(d.rebuttals)]),
                   !.requested = Append(@, d.issued),
                   !.round_num = @ + 1])

(* stage2b_collect_rebuttals from position from up to its next await *)
CollectFrom(d, from) ==
    LET i == NextCriticized(d, from)
    IN  IF i = 0 THEN EndRound(d)
        ELSE [d EXCEPT !.pc = "await", !.index = i, !.issued = @ \cup {i}]

(* for round_num in range(max_rounds): the head of the loop and the body up *)
(* to the first await                                                       *)
StartRound(d) ==
    IF d.round_num >= d.max_rounds THEN [d EXCEPT !.pc = "done"]
    ELSE LET c == check_consensus(Stage2AtRound(d), LabelToModel(d.stage1),
                                  DEBATE_CONFIG_consensus_threshold)
         IN  IF c.has_consensus
             THEN [d EXCEPT !.pc = "done",
                            !.debate_rounds = Append(@, [round |-> d.round_num + 1,
                                                         status |-> "consensus_reached",
                                                         count |-> 0]),
                            !.requested = Append(@, {})]
             ELSE CollectFrom([d EXCEPT !.rebuttals = <<>>, !.issued = {}], 1)

(* Stage 2 has returned: the debate block is entered or skipped *)
DebateEnter ==
    /\ deb.pc = "start"
    /\ deb' = IF deb.enable_debate
              THEN StartRound([deb EXCEPT !.max_rounds = MaxRounds(deb.max_debate_rounds)])
              ELSE [deb EXCEPT !.pc = "done"]
    /\ UNCHANGED <<syn, parseVars, rankVars, simVars, mlVars, fan, pipeVars>>

(* response = await query_model(model, messages) returns, with a response   *)
(* (ok) or None; the coroutine runs on to its next await or to the end of   *)
(* the loop                                                                 *)
RebuttalSettle(ok) ==
    /\ deb.pc = "await"
    /\ deb' = CollectFrom([deb EXCEPT
                  !.rebuttals = IF ok THEN Append(@, deb.stage1[deb.index]) ELSE @],
                  deb.index + 1)
    /\ UNCHANGED <<syn, parseVars, rankVars, simVars, mlVars, fan, pipeVars>>

----------------------------------------------------------------------------
(* backend/council.py: stage3_synthesize_stream, and the loop of            *)
(* send_message_stream that consumes it.  A text is a sequence of           *)
(* characters; the chairman stream delivers non-empty pieces of text.       *)

SYNTHESIS_SENTINEL == <<"Error: Unable to generate final synthesis.">>

SynIdle ==
    [ pc |-> "idle", full_response |-> <<>>, events |-> <<>>, relayed |-> <<>>,
      stage3_result |-> <<>> ]

(* an except branch that yields the sentinel whatever was accumulated *)
ErrorResponseDiscarding(full_response) == SYNTHESIS_SENTINEL

(* full_response or "Error: Unable to generate final synthesis." *)
ErrorResponse(full_response) ==
    IF full_response = <<>> THEN SYNTHESIS_SENTINEL ELSE full_response

(* async for token in query_model_stream(...): one token arrives, is added  *)
(* to full_response and yielded; the consumer relays it as stage3_token     *)
StreamToken(token) ==
    /\ syn.pc = "streaming"
    /\ syn' = [syn EXCEPT !.full_response = @ \o token,
                          !.events = Append(@, [type |-> "token", text |-> token]),
                          !.relayed = Append(@, [type |-> "stage3_token", text |-> token])]
    /\ UNCHANGED <<deb, parseVars, rankVars, simVars, mlVars, fan, pipeVars>>

(* the chairman stream ends: the complete event, which the consumer turns   *)
(* into stage3_result and relays as stage3_complete                         *)
StreamComplete ==
    /\ syn.pc = "streaming"
    /\ syn' = [syn EXCEPT !.pc = "done",
                          !.events = Append(@, [type |-> "complete",
                                                text |-> syn.full_response]),
                          !.relayed = Append(@, [type |-> "stage3_complete",
                                                 text |-> syn.full_response]),
                          !.stage3_result = <<syn.full_response>>]
    /\ UNCHANGED <<deb, parseVars, rankVars, simVars, mlVars, fan, pipeVars>>

(* the chairman stream raises: the error event, which the consumer also     *)
(* turns into stage3_result and relays as stage3_complete                   *)
StreamError ==
    /\ syn.pc = "streaming"
    /\ LET response == ErrorResponse(syn.full_response)
       IN  syn' = [syn EXCEPT !.pc = "done",
                              !.events = Append(@, [type |-> "error", text |-> response]),
                              !.relayed = Append(@, [type |-> "stage3_complete",
                                                     text |-> response]),
                              !.stage3_result = <<response>>]
    /\ UNCHANGED <<deb, parseVars, rankVars, simVars, mlVars, fan, pipeVars>>

ExtIdle == deb = DebIdle /\ syn = SynIdle

----------------------------------------------------------------------------
(* Debate harness: the loop entered after Stage 2, for two Stage-1 models   *)
(* and the two verdicts about them                                          *)

MaxRoundsArg == 2

(* None, or an integer *)
RoundsArgs == {<<>>} \cup {<<n>> : n \in 0..MaxRoundsArg}

CritiqueParts ==
    {<<>>, <<"Response A", PROSE>>, <<"Response B", PROSE>>, <<"Response B", "word">>}

RankingParts ==
    {<<>>, <<HEADER, NUMBER, "Response A", NUMBER, "Response B">>,
     <<HEADER, NUMBER, "Response B", NUMBER, "Response A">>}

DebateVerdicts == {c \o r : c \in CritiqueParts, r \in RankingParts}

DebateModels == SubSeq(COUNCIL_MODELS, 1, 2)

InitDebate ==
    /\ \E enable_debate \in BOOLEAN, max_debate_rounds \in RoundsArgs,
          text1 \in DebateVerdicts, text2 \in DebateVerdicts :
          deb = [DebIdle EXCEPT
                    !.pc = "start",
                    !.enable_debate = enable_debate,
                    !.max_debate_rounds = max_debate_rounds,
                    !.stage1 = DebateModels,
                    !.stage2 = <<Stage2Record(DebateModels[1], text1),
                                 Stage2Record(DebateModels[2], text2)>>]
    /\ syn = SynIdle

(* Stream harness: one chairman stream *)

MaxStreamTokens == 6

StreamTokens == {<<"a">>, <<"b", "c">>}

InitStream ==
    /\ syn = [SynIdle EXCEPT !.pc = "streaming"]
    /\ deb = DebIdle

----------------------------------------------------------------------------
(* Fan-out harness: the model lists Stage 1 is run over *)

FanModelLists ==
    {COUNCIL_MODELS, select_diverse_models(COUNCIL_MODELS, mini_council_size)}

InitFan ==
    \E models \in FanModelLists :
        fan = [FanIdle EXCEPT !.pc = "start", !.models = models,
                              !.status = [i \in 1..Len(models) |-> "idle"],
                              !.issued = [i \in 1..Len(models) |-> 0]]

HarnessIdle == ParseIdle /\ RankIdle /\ SimIdle /\ MLIdle /\ fan = FanIdle /\ ExtIdle

CoreIdle == RouterIdle /\ SelectIdle /\ CacheIdle /\ PipelineIdle

----------------------------------------------------------------------------
(* Specifications *)

NextRouter == RouterCall

RouterInit == InitRouter /\ SelectIdle /\ CacheIdle /\ PipelineIdle /\ HarnessIdle

SpecRouter == RouterInit /\ [][NextRouter]_vars

NextSelect == SelectEnter \/ SelectIterate

SelectInit == InitSelect /\ RouterIdle /\ CacheIdle /\ PipelineIdle /\ HarnessIdle

SpecSelect == SelectInit /\ [][NextSelect]_vars

NextCache ==
    \/ \E q \in CacheQueries : CacheStore(q)
    \/ \E q \in CacheQueries : CacheLookup(q)
    \/ Tick
    \/ ClearCache
    \/ GetCacheStats

CacheInit == CacheIdle /\ RouterIdle /\ SelectIdle /\ PipelineIdle /\ HarnessIdle

SpecCache == CacheInit /\ [][NextCache]_vars

NextSet ==
    \/ \E q \in CacheQueries : SetCall(q)
    \/ \E q \in CacheQueries : CacheLookup(q)
    \/ Tick
    \/ Restart

SetInit == CacheIdle /\ RouterIdle /\ SelectIdle /\ PipelineIdle /\ HarnessIdle

SpecSet == SetInit /\ [][NextSet]_vars

Next ==
    \/ \E q \in PipelineQueries : StartStream(q)
    \/ \E q \in PipelineQueries : StartFull(q)
    \/ \E r \in 1..MaxRuns : Stage1Settle(r)
    \/ \E r \in 1..MaxRuns : Stage2Settle(r)
    \/ \E r \in 1..MaxRuns : Stage3Settle(r)
    \/ Tick
    \/ ClearCache

Init == PipelineIdle /\ CacheIdle /\ RouterIdle /\ SelectIdle /\ HarnessIdle

Spec == Init /\ [][Next]_vars

(* the pipeline with conversations deleted under running requests; every   *)
(* Gateway call settles, by its answer, its error or its timeout            *)
NextLive ==
    \/ Next
    \/ \E r \in 1..MaxRuns : DeleteConversation(r)

Fairness ==
    \A r \in 1..MaxRuns :
        /\ WF_vars(Stage1Settle(r))
        /\ WF_vars(Stage2Settle(r))
        /\ WF_vars(Stage3Settle(r))

SpecLive == Init /\ [][NextLive]_vars /\ Fairness

NextParse == ParseCall

ParseInit == InitParse /\ CoreIdle /\ RankIdle /\ SimIdle /\ MLIdle /\ fan = FanIdle /\ ExtIdle

SpecParse == ParseInit /\ [][NextParse]_vars

NextRank ==
    \/ AggregateCall
    \/ \E threshold \in Thresholds : ConsensusCall(threshold)

RankInit == InitRank /\ CoreIdle /\ ParseIdle /\ SimIdle /\ MLIdle /\ fan = FanIdle /\ ExtIdle

SpecRank == RankInit /\ [][NextRank]_vars

NextSim == SimCallAB \/ SimCallBA

SimInit == InitSim /\ CoreIdle /\ ParseIdle /\ RankIdle /\ MLIdle /\ fan = FanIdle /\ ExtIdle

SpecSim == SimInit /\ [][NextSim]_vars

NextML == PredictCall \/ HeuristicCall

MLInit == InitML /\ CoreIdle /\ ParseIdle /\ RankIdle /\ SimIdle /\ fan = FanIdle /\ ExtIdle

SpecML == MLInit /\ [][NextML]_vars

NextFan ==
    \/ FanOutIssue
    \/ \E i \in 1..Len(COUNCIL_MODELS), outcome \in CallOutcomes : CallSettle(i, outcome)
    \/ FanOutJoin

FanInit == InitFan /\ CoreIdle /\ ParseIdle /\ RankIdle /\ SimIdle /\ MLIdle /\ ExtIdle

SpecFan == FanInit /\ [][NextFan]_vars

NextDebate ==
    \/ DebateEnter
    \/ \E ok \in BOOLEAN : RebuttalSettle(ok)

DebateInit ==
    InitDebate /\ CoreIdle /\ ParseIdle /\ RankIdle /\ SimIdle /\ MLIdle /\ fan = FanIdle

SpecDebate == DebateInit /\ [][NextDebate]_vars

NextStream ==
    \/ \E token \in StreamTokens :
           /\ Len(syn.events) < MaxStreamTokens
           /\ StreamToken(token)
    \/ StreamComplete
    \/ StreamError

StreamInit ==
    InitStream /\ CoreIdle /\ ParseIdle /\ RankIdle /\ SimIdle /\ MLIdle /\ fan = FanIdle

SpecStream == StreamInit /\ [][NextStream]_vars

----------------------------------------------------------------------------
(* Properties of the router *)

Routed == rdec # NoDecision

DefaultThresholds == rthr = <<complexity_threshold_single, complexity_threshold_full>>

(* C6: the complexity score of every query lies in [0,1] and, when no tier  *)
(* is forced, the tier is 1 below complexity_threshold_single, 2 from there *)
(* to below complexity_threshold_full, and 3 from there on.                 *)
C6_TierFromScore ==
    Routed =>
        LET c == rdec.complexity
            belowSingle == c.num * 100 < rthr[1] * c.den
            belowFull == c.num * 100 < rthr[2] * c.den
        IN  /\ 0 <= c.num
            /\ c.num <= c.den
            /\ rforce = 0 =>
                  /\ belowSingle => rdec.tier = 1
                  /\ (~belowSingle /\ belowFull) => rdec.tier = 2
                  /\ ~belowFull => rdec.tier = 3

(* a query whose score is exactly complexity_threshold_single goes to tier 2 *)
C6_Witness ==
    /\ Routed
    /\ rforce = 0
    /\ rdec.complexity.num * 100 = rthr[1] * rdec.complexity.den
    /\ rdec.tier = 2

TwoQuestionsThreeTerms ==
    /\ Routed
    /\ rforce = 0
    /\ DefaultThresholds
    /\ rdec.complexity.question_marks = 2
    /\ rdec.complexity.tech_count = 3

(* C7 as stated: with the default thresholds every query with two "?" and   *)
(* three technical terms scores at least 0.7 and is routed to tier 3 with   *)
(* the whole council.                                                       *)
C7_Original ==
    TwoQuestionsThreeTerms =>
        /\ rdec.complexity.num * 100 >= complexity_threshold_full * rdec.complexity.den
        /\ rdec.tier = 3
        /\ rdec.models = COUNCIL_MODELS

(* C7 amended: with the default thresholds a query with two "?" and three   *)
(* technical terms is routed to tier 3, with the whole council, exactly     *)
(* when its score reaches 0.7; the technical factor is at most 0.3 and the  *)
(* multi-part factor between 0.1 and 0.25, so the two features alone leave  *)
(* the score below 0.7 and the query can go to tier 1 or 2.                 *)
C7_Amended ==
    TwoQuestionsThreeTerms =>
        LET c == rdec.complexity IN
        /\ rdec.tier = 3 <=> c.num * 100 >= complexity_threshold_full * c.den
        /\ rdec.tier = 3 => rdec.models = COUNCIL_MODELS
        /\ rdec.tier # 3 => Len(rdec.models) < Len(COUNCIL_MODELS)
        /\ c.factors.technical * 100 <= 30 * c.den
        /\ c.factors.multi_part * 100 >= 10 * c.den
        /\ c.factors.multi_part * 100 <= 25 * c.den

(* a query with two "?" and three technical terms that does reach tier 3 *)
C7_Witness ==
    /\ TwoQuestionsThreeTerms
    /\ rdec.tier = 3
    /\ rdec.models = COUNCIL_MODELS

----------------------------------------------------------------------------
(* Properties of select_diverse_models *)

ProvidersOf(models) == {ProviderOf(models[i]) : i \in 1..Len(models)}

(* how many of the first i-1 selected models are of provider p *)
PriorCount(sel, i, p) == Cardinality({j \in 1..(i - 1) : ProviderOf(sel[j]) = p})

(* provider p still has a model of all_models outside the first i-1 selected *)
HasUnselected(all, sel, i, p) ==
    \E m \in Range(all) : ProviderOf(m) = p /\ \A j \in 1..(i - 1) : sel[j] # m

(* C9: with count < len(all_models), no model is selected from a provider   *)
(* that has already contributed while another provider with an unselected   *)
(* model has contributed fewer; and with count at most the number of        *)
(* providers the selected models have pairwise distinct providers.          *)
C9_RoundRobin ==
    (sdPc # "start" /\ sdCount < Len(sdAll)) =>
        /\ \A i \in 1..Len(sdSelected) :
              LET p == ProviderOf(sdSelected[i])
                  k == PriorCount(sdSelected, i, p)
              IN  k >= 1 =>
                    \A q \in ProvidersOf(sdAll) \ {p} :
                        HasUnselected(sdAll, sdSelected, i, q)
                            => PriorCount(sdSelected, i, q) >= k
        /\ (sdPc = "done" /\ sdCount <= Cardinality(ProvidersOf(sdAll))) =>
              /\ Len(sdSelected) = sdCount
              /\ \A i, j \in 1..Len(sdSelected) :
                    i # j => ProviderOf(sdSelected[i]) # ProviderOf(sdSelected[j])

(* a finished selection over several providers that had to take a second    *)
(* model from one provider because the others were used up                  *)
C9_Witness ==
    /\ sdPc = "done"
    /\ sdCount < Len(sdAll)
    /\ Cardinality(ProvidersOf(sdAll)) >= 2
    /\ Len(sdSelected) = sdCount
    /\ \E i, j \in 1..Len(sdSelected) :
          i # j /\ ProviderOf(sdSelected[i]) = ProviderOf(sdSelected[j])

----------------------------------------------------------------------------
(* Properties of the tier dispatch *)

(* C8: the Single tier dispatches exactly one model, the configured         *)
(* single_model, and the Full tier the whole council; "What is 2+2?"        *)
(* scores below complexity_threshold_single and its decision holds exactly  *)
(* one model.                                                               *)
C8_TierDispatch ==
    Routed =>
        /\ rdec.tier = 1 =>
              /\ rdec.models = <<single_model>>
              /\ Stage1Models(rdec) = <<single_model>>
        /\ rdec.tier = 3 =>
              /\ rdec.models = COUNCIL_MODELS
              /\ Stage1Models(rdec) = COUNCIL_MODELS
        /\ (rq = WhatIs2Plus2 /\ rforce = 0) =>
              /\ rdec.complexity.num * 100 < rthr[1] * rdec.complexity.den
              /\ rdec.tier = 1
              /\ Len(rdec.models) = 1

(* "What is 2+2?" routed with the default thresholds *)
C8_Witness ==
    /\ Routed
    /\ rq = WhatIs2Plus2
    /\ rforce = 0
    /\ DefaultThresholds
    /\ rdec.tier = 1
    /\ Stage1Models(rdec) = <<single_model>>

----------------------------------------------------------------------------
(* Properties of the cache *)

Looked == look # NoLook

(* the age in hours, at the lookup, of the entry the lookup returned *)
ReturnedAge == look.at - look.entry.created_at

(* C2: check_cache never returns an entry whose age exceeds ttl_hours, on   *)
(* the exact-key path and on the similarity path, whether or not            *)
(* _clean_expired has run.                                                  *)
C2_NoExpiredEntryReturned ==
    (Looked /\ look.hit) =>
        /\ look.path \in {"exact", "similar"}
        /\ ReturnedAge <= ttl_hours

(* a lookup that met an expired entry, dropped it, and returned a similar   *)
(* entry that was exactly ttl_hours old                                     *)
C2_Witness ==
    /\ Looked
    /\ look.hit
    /\ look.path = "similar"
    /\ look.dropped > 0
    /\ ReturnedAge = ttl_hours

SameEntry(e, b) ==
    /\ e.key = b.key
    /\ e.query = b.query
    /\ e.art = b.art
    /\ e.created_at = b.created_at

AtLeastThreshold(similarity) == similarity * 10 >= similarity_threshold * SimScale

(* what a lookup l made on the cache before must have returned *)
LookupAsSpecified(before, l) ==
    LET key == GenerateKey(seed, l.q)
        live == {i \in 1..Len(before) : l.at <= before[i].created_at + ttl_hours}
        exact == {i \in live : before[i].key = key}
        Sim(i) == Similarity(l.q, before[i].query)
        best == {i \in live : \A j \in live : Sim(j) <= Sim(i)}
    IN  IF exact # {}
        THEN /\ l.hit
             /\ l.similarity = SimOne
             /\ \E i \in exact : SameEntry(l.entry, before[i])
        ELSE IF \E i \in live : AtLeastThreshold(Sim(i))
        THEN /\ l.hit
             /\ \E i \in best : SameEntry(l.entry, before[i]) /\ l.similarity = Sim(i)
        ELSE ~l.hit

(* C4: check_cache returns the non-expired entry under the query's exact    *)
(* key, with similarity 1.0, if there is one; otherwise the non-expired     *)
(* entry of highest similarity, if that similarity reaches                  *)
(* similarity_threshold; otherwise it reports a miss.                       *)
C4_LookupResult == [][look' # NoLook => LookupAsSpecified(cache, look')]_vars

(* a similarity hit chosen between two live entries that both reach the     *)
(* threshold, with different similarities                                   *)
C4_Witness ==
    /\ Looked
    /\ look.hit
    /\ look.path = "similar"
    /\ \E i, j \in 1..Len(cache) :
          /\ cache[i].key = look.entry.key
          /\ look.at <= cache[j].created_at + ttl_hours
          /\ AtLeastThreshold(Similarity(look.q, cache[j].query))
          /\ Similarity(look.q, cache[j].query) < look.similarity

----------------------------------------------------------------------------
(* Properties of the pipeline *)

Runs == DOMAIN runs

NoCalls(run) == run.calls1 = <<>> /\ run.calls2 = <<>> /\ run.calls3 = <<>>

(* C1: in run_full_council and in send_message_stream alike, a run whose    *)
(* Stage 1 ended with no success ends with one pipeline-level error and     *)
(* makes no Stage-2 or Stage-3 Gateway call.                                *)
C1_EmptyStage1Aborts ==
    \A r \in Runs :
        (runs[r].pc \in {"stage2", "stage3", "done"} /\ ~runs[r].hit /\ runs[r].stage1 = <<>>) =>
            /\ runs[r].calls2 = <<>>
            /\ runs[r].calls3 = <<>>
            /\ runs[r].pc = "done" => runs[r].outcome = "error"

(* C10: the models asked to rank in Stage 2 are the models queried in       *)
(* Stage 1 of the same run.                                                 *)
C10_RankersAreStage1Models ==
    \A r \in Runs :
        runs[r].calls2 # <<>> => Range(runs[r].calls2) = Range(runs[r].calls1)

(* the run's result is what an earlier run produced and stored *)
FromCache(r) ==
    /\ runs[r].result # NoArt
    /\ runs[r].result.run \in Runs \ {r}
    /\ runs[runs[r].result.run].stored
    /\ runs[runs[r].result.run].result = runs[r].result

(* C5: on a cache hit the streaming endpoint returns the cached artifacts   *)
(* and neither routes, nor makes a Stage 1, 2 or 3 Gateway call, nor stores *)
(* anything; routing, the stages and the store happen only after a miss,    *)
(* and the store only once Stage 3 has finished.                            *)
C5_HitBypassesPipeline ==
    \A r \in Runs :
        runs[r].kind = "stream" =>
            /\ runs[r].hit =>
                  /\ runs[r].pc = "done"
                  /\ runs[r].outcome = "complete"
                  /\ FromCache(r)
                  /\ runs[r].tier = 0
                  /\ NoCalls(runs[r])
                  /\ ~runs[r].stored
            /\ (runs[r].tier # 0 \/ ~NoCalls(runs[r]) \/ runs[r].stored) => ~runs[r].hit
            /\ runs[r].stored => (runs[r].pc = "done" /\ runs[r].stage3 # "none")

(* a streaming run that ended on a cache hit *)
C5_Witness ==
    \E r \in Runs :
        /\ runs[r].kind = "stream"
        /\ runs[r].hit
        /\ runs[r].pc = "done"
        /\ FromCache(r)

(* the second submission of a query whose one earlier submission was a miss *)
(* that stored its result no more than ttl_hours before                     *)
SecondSubmission(r) == runs[r].kind = "stream" /\ runs[r].first # 0

ReturnsFirstRun(r) ==
    /\ runs[r].hit
    /\ runs[r].similarity = SimOne
    /\ runs[r].result = runs[runs[r].first].result

(* C3 as stated: a query submitted twice within the TTL, the first          *)
(* submission a miss that was stored, is a hit the second time, with the    *)
(* first run's Stage-3 artifact and similarity exactly 1.0.                 *)
C3_Original ==
    \A r \in Runs : SecondSubmission(r) => ReturnsFirstRun(r)

(* C3 amended: the same, provided the entry the first run stored is still   *)
(* in the cache under the query's key at the second submission: it was not  *)
(* evicted by the size limit, cleared, or replaced by another store.        *)
C3_Amended ==
    \A r \in Runs :
        (SecondSubmission(r) /\ runs[r].held = runs[runs[r].first].result)
            => ReturnsFirstRun(r)

(* a second submission, made when the first run's entry was exactly         *)
(* ttl_hours old, that returned the first run's artifacts                   *)
C3_Witness ==
    \E r \in Runs :
        /\ SecondSubmission(r)
        /\ ReturnsFirstRun(r)
        /\ runs[r].result.stage3 = "answer"
        /\ now = runs[runs[r].first].storedAt + ttl_hours

----------------------------------------------------------------------------
(* Properties of parse_ranking_from_text *)

Parsed == pvParsed # NotParsed

Headers(text) == Cardinality({i \in 1..Len(text) : text[i] = HEADER})

(* the text after the last occurrence of the header *)
AfterLastHeader(text) ==
    LET parts == SplitOnHeader(text) IN parts[Len(parts)]

(* the strict matches of a section, or all its labels when there is none *)
LabelsOfSection(section) ==
    IF NumberedMatches(section) # <<>> THEN NumberedMatches(section)
    ELSE LabelMatches(section)

(* C11: parse_ranking_from_text equals the reference: with the header       *)
(* present, the labels of the strict "<number>. Response <letter>" matches  *)
(* of the ranking section in their order, or every label of that section    *)
(* when there is no strict match; with the header absent, every label of    *)
(* the whole text in order of appearance.                                   *)
C11_EqualsReference ==
    Parsed =>
        pvParsed = IF Headers(pvText) > 0 THEN LabelsOfSection(AfterLastHeader(pvText))
                   ELSE LabelMatches(pvText)

(* C12: when the header occurs more than once, no label listed before its   *)
(* last occurrence enters the parsed ranking: the ranking is read from the  *)
(* text after the last occurrence alone.                                    *)
C12_LastHeaderWins ==
    (Parsed /\ Headers(pvText) > 1) =>
        pvParsed = LabelsOfSection(AfterLastHeader(pvText))

----------------------------------------------------------------------------
(* Properties of calculate_aggregate_rankings and check_consensus *)

Aggregated == rkPc # "start"

AggModels == {rkAgg[k].model : k \in 1..Len(rkAgg)}

(* the models some evaluator's parsed ranking names through the label map *)
NamedModels ==
    {rkModels[i] : i \in {j \in 1..Len(rkModels) :
        \E e \in 1..Len(rkStage2) : ResponseLabels[j] \in Range(rkStage2[e].parsed_ranking)}}

(* the 1-based positions of a model over the evaluators' parsed rankings *)
PositionPairs(model) ==
    {<<e, i>> \in (1..Len(rkStage2)) \X (1..MaxVerdictLen) :
        /\ i <= Len(rkStage2[e].parsed_ranking)
        /\ \E j \in 1..Len(rkModels) :
              rkModels[j] = model /\ rkStage2[e].parsed_ranking[i] = ResponseLabels[j]}

RECURSIVE PositionTotal(_)
PositionTotal(pairs) ==
    IF pairs = {} THEN 0
    ELSE LET p == CHOOSE x \in pairs : TRUE IN p[2] + PositionTotal(pairs \ {p})

OneRecordPerNamedModel ==
    /\ AggModels = NamedModels
    /\ \A k, l \in 1..Len(rkAgg) : rkAgg[k].model = rkAgg[l].model => k = l
    /\ AggModels \subseteq Range(rkModels)

SortedAscending ==
    \A k, l \in 1..Len(rkAgg) : k < l => rkAgg[k].average_rank <= rkAgg[l].average_rank

(* C13 as stated: one record per named model and no other, average_rank     *)
(* exactly the mean of the model's 1-based positions, sorted ascending.     *)
C13_Original ==
    Aggregated =>
        /\ OneRecordPerNamedModel
        /\ SortedAscending
        /\ \A k \in 1..Len(rkAgg) :
              rkAgg[k].average_rank * Cardinality(PositionPairs(rkAgg[k].model))
                  = 100 * PositionTotal(PositionPairs(rkAgg[k].model))

(* C13 amended: one record per named model and no other, average_rank the   *)
(* mean of the model's 1-based positions rounded to two decimal places      *)
(* (within half a hundredth of the mean), sorted ascending by it.           *)
C13_Amended ==
    Aggregated =>
        /\ OneRecordPerNamedModel
        /\ SortedAscending
        /\ \A k \in 1..Len(rkAgg) :
              LET n == Cardinality(PositionPairs(rkAgg[k].model))
                  d == rkAgg[k].average_rank * n - 100 * PositionTotal(PositionPairs(rkAgg[k].model))
              IN  n > 0 /\ 2 * d <= n /\ 2 * d >= 0 - n

(* three evaluators rank a model at positions 1, 2 and 2: mean 5/3, 1.67 *)
C13_Witness ==
    /\ Aggregated
    /\ Len(rkAgg) = 2
    /\ \E k \in 1..Len(rkAgg) :
          /\ PositionTotal(PositionPairs(rkAgg[k].model)) = 5
          /\ Cardinality(PositionPairs(rkAgg[k].model)) = 3
          /\ rkAgg[k].average_rank = 167

(* C14: rankings_count is the number of evaluators who ranked the model,    *)
(* each evaluator counted at most once, so it never exceeds the number of   *)
(* Stage-2 ranking records.                                                 *)
C14_CountsEvaluators ==
    Aggregated =>
        \A k \in 1..Len(rkAgg) :
            /\ rkAgg[k].rankings_count = Cardinality({p[1] : p \in PositionPairs(rkAgg[k].model)})
            /\ rkAgg[k].rankings_count <= Len(rkStage2)

ConsensusChecked == rkPc = "checked"

(* every evaluator's parsed ranking names the model first *)
AllNameFirst(model) ==
    /\ Len(rkStage2) >= 1
    /\ \A e \in 1..Len(rkStage2) :
          /\ rkStage2[e].parsed_ranking # <<>>
          /\ \E j \in 1..Len(rkModels) :
                rkModels[j] = model /\ rkStage2[e].parsed_ranking[1] = ResponseLabels[j]

(* C15: when all N >= 1 evaluators name the same model X first and the      *)
(* consensus threshold is at most 1.0, check_consensus returns (True, X).   *)
C15_UnanimousConsensus ==
    (ConsensusChecked /\ rkThr <= 100) =>
        \A model \in Range(rkModels) :
            AllNameFirst(model) => rkCons = [has_consensus |-> TRUE, model |-> model]

C15_Witness ==
    /\ ConsensusChecked
    /\ rkThr = 100
    /\ Len(rkStage2) = MaxEvaluators
    /\ Len(rkModels) = 2
    /\ AllNameFirst(rkModels[2])
    /\ rkCons = [has_consensus |-> TRUE, model |-> rkModels[2]]

----------------------------------------------------------------------------
(* Terminal outcome of a pipeline run *)

(* the caller was given a final Stage-3 result *)
Answered(r) == runs[r].result # NoArt

(* the caller was given an error object *)
Errored(r) == runs[r].outcome = "error"

Ended(r) == IF r \in DOMAIN runs THEN runs[r].pc = "done" ELSE FALSE

(* some Stage-1 call of the run failed and some succeeded *)
PartialFailure(r) ==
    /\ runs[r].stage1 # <<>>
    /\ Len(runs[r].stage1) < Len(runs[r].calls1)

OneOutcome(r) ==
    /\ runs[r].pc = "done" =>
          /\ Answered(r) \/ Errored(r)
          /\ ~(Answered(r) /\ Errored(r))
          /\ Answered(r) => runs[r].result.stage3 \in {"answer", "sentinel"}
    /\ runs[r].pc # "done" => ~Answered(r) /\ ~Errored(r)
    /\ (PartialFailure(r) /\ ~ConversationGone(r)) => ~Errored(r)

C16_EveryRunEnds ==
    \A r \in 1..MaxRuns : (r \in DOMAIN runs) ~> Ended(r)

----------------------------------------------------------------------------
(* Symmetry of calculate_query_similarity *)

(* C17: calculate_query_similarity(a, b) equals                             *)
(* calculate_query_similarity(b, a) for every pair of queries, the choice   *)
(* of the weights included.                                                 *)
C17_Symmetric ==
    smPc = "done" => smAB = smBA

(* the choice of the weights is the same both ways round *)
C17_SameWeights ==
    BlendWeights(Cardinality(tokenize(smA)), Cardinality(tokenize(smB)))
        = BlendWeights(Cardinality(tokenize(smB)), Cardinality(tokenize(smA)))

----------------------------------------------------------------------------
(* The untrained routing model against the heuristic scorer *)

(* C18: with no training data RoutingModel.predict gives every query the    *)
(* tier that the heuristic scorer gives it with the default thresholds.     *)
C18_FallsBackToHeuristic ==
    (mlTier # 0 /\ mlHeur # 0) => mlTier = mlHeur

----------------------------------------------------------------------------
(* The Stage-1 fan-out *)

FanCalls == 1..Len(fan.models)

Succeeded(i) == fan.status[i] \in {"ok", "ok_usage"}

(* C19: the fan-out issues exactly one Gateway call per model, all of them  *)
(* before it waits; it returns only when every call has settled, none       *)
(* having been cancelled; a failed call is not issued again and its model   *)
(* is in neither the results nor the usage records.                         *)
C19_FanOutContract ==
    /\ \A i \in FanCalls : fan.issued[i] <= 1
    /\ fan.pc \in {"waiting", "returned"} => \A i \in FanCalls : fan.issued[i] = 1
    /\ fan.pc = "returned" =>
          /\ \A i \in FanCalls : Settled(fan.status[i])
          /\ Range(fan.results) = {fan.models[i] : i \in {j \in FanCalls : Succeeded(j)}}
          /\ Range(fan.usage) \subseteq Range(fan.results)
          /\ \A i \in FanCalls : fan.status[i] = "failed" =>
                fan.models[i] \notin Range(fan.results) \cup Range(fan.usage)

(* a fan-out over the council returned after one call failed *)
C19_Witness ==
    /\ fan.pc = "returned"
    /\ Len(fan.models) = Len(COUNCIL_MODELS)
    /\ fan.status[2] = "failed"
    /\ fan.order[1] = 2
    /\ Len(fan.results) = Len(COUNCIL_MODELS) - 1
    /\ fan.usage # <<>>

(* C20: the Stage-1 results are in the order of the request list whatever   *)
(* order the calls finished in; the i-th successful model has the i-th      *)
(* label, every label maps to one response and no two responses share one.  *)
C20_RequestOrderLabels ==
    fan.pc = "returned" =>
        /\ fan.results = SelectSeq(fan.models, LAMBDA m : m \in Range(fan.results))
        /\ DOMAIN fan.labels = {ResponseLabels[k] : k \in 1..Len(fan.results)}
        /\ \A k \in 1..Len(fan.results) : fan.labels[ResponseLabels[k]] = fan.results[k]
        /\ \A k, l \in 1..Len(fan.results) : fan.results[k] = fan.results[l] => k = l

(* the calls finished in the reverse of the request order, all with a       *)
(* response                                                                 *)
C20_Witness ==
    /\ fan.pc = "returned"
    /\ Len(fan.models) = Len(COUNCIL_MODELS)
    /\ fan.order = [k \in 1..Len(fan.models) |-> Len(fan.models) + 1 - k]
    /\ fan.results = fan.models
    /\ fan.labels["Response A"] = fan.models[1]

----------------------------------------------------------------------------
(* The debate loop *)

(* the maximum round count in force for the run *)
BoundInForce(d) ==
    IF d.max_debate_rounds = <<>> THEN DEBATE_CONFIG_max_rounds
    ELSE d.max_debate_rounds[1]

(* the rounds entered so far: those recorded and the one in progress *)
RoundsRun(d) == Len(d.debate_rounds) + (IF d.pc = "await" THEN 1 ELSE 0)

CriticizedModels(d) ==
    {i \in 1..Len(d.stage1) :
        extract_critiques_for_model(d.stage1[i], Stage2AtRound(d), d.stage1) # <<>>}

(* C23: within a round the rebuttal calls are concurrent: while a call of   *)
(* the round has not settled, the request to every criticized model of the  *)
(* round has already been issued.                                           *)
C23_RoundCallsConcurrent ==
    deb.pc = "await" => deb.issued = CriticizedModels(deb)

(* C28: consensus is only ever detected in round 1: no round after the      *)
(* first ends with status consensus_reached, and every later round sends    *)
(* its rebuttal requests to the same models as round 1.                     *)
C28_ConsensusOnlyInRoundOne ==
    \A k \in 1..Len(deb.debate_rounds) :
        k > 1 => /\ deb.debate_rounds[k].status # "consensus_reached"
                 /\ deb.requested[k] = deb.requested[1]

C28_Witness ==
    /\ deb.pc = "done"
    /\ Len(deb.debate_rounds) = DEBATE_CONFIG_max_rounds
    /\ deb.requested[DEBATE_CONFIG_max_rounds] # {}
    /\ deb.debate_rounds[2].status = "rebuttals_collected"

----------------------------------------------------------------------------
(* The Stage-3 stream *)

(* the texts of the token events among the first n events, concatenated *)
TokensBefore(events, n) ==
    Flatten([i \in 1..(n - 1) |-> events[i].text])

(* C24: the generator yields token events and then exactly one terminal     *)
(* event, with nothing after it: a complete event carrying the              *)
(* concatenation of the tokens yielded before it, or an error event         *)
(* carrying that concatenation, the sentinel text when no token was         *)
(* yielded.                                                                 *)
C24_TokensThenOneTerminal ==
    LET events == syn.events
        n == Len(events)
    IN  /\ \A i \in 1..n : events[i].type # "token" => (i = n /\ syn.pc = "done")
        /\ syn.pc = "done" => (n >= 1 /\ events[n].type \in {"complete", "error"})
        /\ \A i \in 1..n :
              /\ events[i].type = "complete" => events[i].text = TokensBefore(events, i)
              /\ events[i].type = "error" =>
                    events[i].text = IF i = 1 THEN SYNTHESIS_SENTINEL
                                     ELSE TokensBefore(events, i)

C24_Witness ==
    /\ syn.pc = "done"
    /\ Len(syn.events) = 3
    /\ syn.events[3].type = "error"
    /\ syn.events[3].text = <<"a", "b", "c">>

----------------------------------------------------------------------------
(* The cache: stores, lookups and restarts *)

(* the last call was a SemanticCache.set *)
WasSet == look # NoLook /\ "before" \in DOMAIN look

KeysOf(c) == {c[i].key : i \in 1..Len(c)}

EntryOf(c, key) == c[KeyIndex(c, key)]

(* C25: after every set the cache holds at most max_cache_size entries;     *)
(* the entries removed are exactly the excess, none of them newer than an   *)
(* entry that stays, whatever the hit counters; the entry just stored       *)
(* stays, and every other entry that stays is as it was.                    *)
C25_SetEvictsOldest ==
    WasSet =>
        LET key == GenerateKey(seed, look.q)
            others == {k \in KeysOf(look.before) : k # key}
            removed == (others \cup {key}) \ KeysOf(cache)
        IN  /\ Len(cache) <= max_cache_size
            /\ KeysOf(cache) \subseteq others \cup {key}
            /\ Cardinality(removed) = Max(Cardinality(others) + 1 - max_cache_size, 0)
            /\ key \in KeysOf(cache)
            /\ EntryOf(cache, key).created_at = look.at
            /\ EntryOf(cache, key).hit_count = 0
            /\ \A k \in KeysOf(cache) \ {key} : EntryOf(cache, k) = EntryOf(look.before, k)
            /\ \A r \in removed, k \in KeysOf(cache) :
                  EntryOf(look.before, r).created_at <= EntryOf(cache, k).created_at

(* a set into a full cache removed the one older entry, which had been hit, *)
(* and kept a newer entry that had not                                      *)
C25_Witness ==
    /\ WasSet
    /\ Len(look.before) = max_cache_size
    /\ GenerateKey(seed, look.q) \notin KeysOf(look.before)
    /\ look.before[1].key \notin KeysOf(cache)
    /\ look.before[1].hit_count > 0
    /\ look.before[1].created_at < look.before[2].created_at
    /\ look.before[2].hit_count = 0
    /\ look.before[2].key \in KeysOf(cache)

(* C29: the cache never holds two entries for one normalized query, also    *)
(* after it has been saved and reloaded by a new process.                   *)
C29_OneEntryPerNormalizedQuery ==
    \A i, j \in 1..Len(cache) :
        i # j => Normalize(cache[i].query) # Normalize(cache[j].query)

(* what a lookup l may have done to the cache c it met, leaving c2 *)
LookupFrame(c, c2, l) ==
    /\ \A k \in KeysOf(c2) :
          /\ k \in KeysOf(c)
          /\ EntryOf(c2, k) =
                [EntryOf(c, k) EXCEPT
                    !.hit_count = @ + (IF l.hit /\ l.entry.key = k THEN 1 ELSE 0)]
    /\ \A k \in KeysOf(c) \ KeysOf(c2) : is_expired(EntryOf(c, k), l.at)
    /\ l.hit => l.entry.key \in KeysOf(c2)
    /\ [i \in 1..Len(c2) |-> c2[i].key] =
          [i \in 1..Len(c2) |-> SelectSeq(c, LAMBDA e : e.key \in KeysOf(c2))[i].key]

(* C26: a lookup changes the cache only by deleting entries that are        *)
(* expired and, on a hit, by raising the hit counter of the returned entry  *)
(* by one; every other field of every entry, the other hit counters and     *)
(* the order of the entries stay as they were, and a miss raises no         *)
(* counter.                                                                 *)
C26_LookupFrame == [][look' # NoLook => LookupFrame(cache, cache', look')]_vars

(* a lookup dropped an expired entry and returned another one, found by     *)
(* similarity, whose counter went from 0 to 1                               *)
C26_Witness ==
    /\ Looked
    /\ look.hit
    /\ look.path = "similar"
    /\ look.dropped = 1
    /\ Len(cache) = 1
    /\ cache[1].key = look.entry.key
    /\ cache[1].hit_count = 1
    /\ cache[1].created_at = look.at

----------------------------------------------------------------------------
(* The pipeline and the cache *)

(* artifacts of a run whose Stage 1 had a response and whose chairman       *)
(* synthesis succeeded                                                      *)
FromSuccessfulRun(art) == art.stage1 # <<>> /\ art.stage3 = "answer"

(* C30: every entry the pipeline stores comes from a run with at least one  *)
(* Stage-1 response and a successful synthesis, so no lookup is served the  *)
(* result of a failed run as a hit.                                         *)
C30_OnlySuccessfulRunsStored ==
    /\ \A i \in 1..Len(cache) : FromSuccessfulRun(cache[i].art)
    /\ \A r \in DOMAIN runs : runs[r].hit => FromSuccessfulRun(runs[r].result)

(* runs r and p missed the cache with queries of one normalized form *)
RacingRuns(r, p) ==
    /\ r # p
    /\ ~runs[r].hit /\ ~runs[p].hit
    /\ Normalize(runs[r].q) = Normalize(runs[p].q)

(* the positions of the cache c that hold an entry for the normalized form  *)
(* of q                                                                     *)
EntriesFor(c, q) == {i \in 1..Len(c) : Normalize(c[i].query) = Normalize(q)}

(* C27: when a run stores after another run that missed the cache with a    *)
(* query of the same normalized form has stored, the cache then holds       *)
(* exactly one entry for that form, with the artifacts of the run that      *)
(* stored last, and each of the two runs has returned its own artifacts.    *)
C27_LastWriteWins ==
    [][\A r, p \in DOMAIN runs :
          (RacingRuns(r, p) /\ runs[p].stored /\ ~runs[r].stored /\ runs'[r].stored)
              => /\ Cardinality(EntriesFor(cache', runs[r].q)) = 1
                 /\ KeysOf(cache') \cap {GenerateKey(seed, runs[r].q)} # {}
                 /\ EntryOf(cache', GenerateKey(seed, runs[r].q)).art = runs'[r].result
                 /\ runs'[r].result.run = r
                 /\ runs'[p].result.run = p]_vars

(* two runs for texts that differ in case only both missed and both stored; *)
(* the run that started first stored last                                   *)
C27_Witness ==
    /\ Len(runs) = 2
    /\ RacingRuns(1, 2)
    /\ runs[1].q # runs[2].q
    /\ runs[1].stored /\ runs[2].stored
    /\ Cardinality(EntriesFor(cache, runs[1].q)) = 1
    /\ \E i \in 1..Len(cache) : cache[i].art = runs[1].result /\ cache[i].query = runs[1].q
    /\ runs[2].result.run = 2

====
